---- MODULE Spec2Model ----
(***************************************************************************)
(* Model of the blocking hubuum client (src/src/client/sync.rs): the       *)
(* Unauthenticated/Authenticated client, the generic request dispatcher,   *)
(* get/search/post/patch/delete, the FilterBuilder, Resource::select and   *)
(* Handle<Class>::delete, together with the pure helpers they call         *)
(* (build_url, into_query_string, check_success, one_or_err).              *)
(*                                                                         *)
(* Text that the code inspects character by character (URLs, paths, keys,  *)
(* filter values) is a sequence of one-character strings.  Tokens, bodies  *)
(* and messages, which the code only copies and parses as a whole, are     *)
(* TLA+ strings.  One action is one whole method call: the client is       *)
(* blocking, so a call sends its request, reads the answer and returns.    *)
(*                                                                         *)
(* The library functions that no client call reaches with arbitrary input  *)
(* (types/filter.rs, types/baseurl.rs, api_resource_derive) are applied on *)
(* their own, one application at a time, under SpecFilters, SpecBaseUrl    *)
(* and SpecDerive.                                                         *)
(***************************************************************************)
EXTENDS Integers, Sequences, FiniteSets, TLC

\* ------------------------------------------------------------------ bounds
MaxId == 2          \* ids passed by callers are 1..MaxId
MaxRecords == 3     \* a list answer holds 0..MaxRecords records
MaxFilters == 2     \* add_filter calls on one FilterBuilder

\* ------------------------------------------------------ text primitives

\* str::trim_start_matches(c): drop every leading c
RECURSIVE TrimStartMatches(_, _)
TrimStartMatches(s, c) ==
    IF s # <<>> /\ Head(s) = c THEN TrimStartMatches(Tail(s), c) ELSE s

\* str::find(pat): the first position at which pat occurs in s, 0 if none
IndexOf(s, pat) ==
    LET at == {i \in 1..(Len(s) - Len(pat) + 1) : SubSeq(s, i, i + Len(pat) - 1) = pat}
    IN  IF at = {} THEN 0 ELSE CHOOSE i \in at : \A j \in at : i <= j

\* str::replace(pat, rep): every non-overlapping match, left to right
RECURSIVE Replace(_, _, _)
Replace(s, pat, rep) ==
    IF pat = <<>> \/ IndexOf(s, pat) = 0 THEN s
    ELSE LET i == IndexOf(s, pat)
         IN  SubSeq(s, 1, i - 1) \o rep
                \o Replace(SubSeq(s, i + Len(pat), Len(s)), pat, rep)

Digit(d) ==
    CASE d = 0 -> "0" [] d = 1 -> "1" [] d = 2 -> "2" [] d = 3 -> "3"
      [] d = 4 -> "4" [] d = 5 -> "5" [] d = 6 -> "6" [] d = 7 -> "7"
      [] d = 8 -> "8" [] d = 9 -> "9"

RECURSIVE NatToString(_)
NatToString(n) ==
    IF n < 10 THEN <<Digit(n)>> ELSE NatToString(n \div 10) \o <<Digit(n % 10)>>

\* i32::to_string
to_string(n) == IF n < 0 THEN <<"-">> \o NatToString(0 - n) ELSE NatToString(n)

\* ---------------------------------------------------------------- endpoints

\* The paths of the Endpoint variants that resources/ and the generated
\* endpoint() of Object name but enum Endpoint does not declare: one path per
\* collection, with the {class_id}, {group_id}, {user_id} and {namespace_id}
\* placeholders of the endpoint path table
path_undeclared(endpoint) ==
    CASE endpoint = "Objects" ->               \* "/api/v1/classes/{class_id}/"
           <<"/","a","p","i","/","v","1","/","c","l","a","s","s","e","s","/",
             "{","c","l","a","s","s","_","i","d","}","/">>
      [] endpoint = "GroupMembers" ->
           \* "/api/v1/iam/groups/{group_id}/members"
           <<"/","a","p","i","/","v","1","/","i","a","m","/","g","r","o","u","p","s",
             "/","{","g","r","o","u","p","_","i","d","}","/","m","e","m","b","e","r",
             "s">>
      [] endpoint = "GroupMembersAddRemove" ->
           \* "/api/v1/iam/groups/{group_id}/members/{user_id}"
           <<"/","a","p","i","/","v","1","/","i","a","m","/","g","r","o","u","p","s",
             "/","{","g","r","o","u","p","_","i","d","}","/","m","e","m","b","e","r",
             "s","/","{","u","s","e","r","_","i","d","}">>
      [] endpoint = "NamespacePermissions" ->
           \* "/api/v1/namespaces/{namespace_id}/permissions"
           <<"/","a","p","i","/","v","1","/","n","a","m","e","s","p","a","c","e","s",
             "/","{","n","a","m","e","s","p","a","c","e","_","i","d","}","/","p","e",
             "r","m","i","s","s","i","o","n","s">>

\* Endpoint::path
path(endpoint) ==
    CASE endpoint = "Login" ->          \* "/api/v0/auth/login"
           <<"/","a","p","i","/","v","0","/","a","u","t","h","/","l","o","g","i","n">>
      [] endpoint = "LoginWithToken" -> \* "/api/v0/auth/validate"
           <<"/","a","p","i","/","v","0","/","a","u","t","h","/","v","a","l","i","d","a","t","e">>
      [] endpoint = "Users" ->          \* "/api/v1/iam/users/"
           <<"/","a","p","i","/","v","1","/","i","a","m","/","u","s","e","r","s","/">>
      [] endpoint = "Groups" ->         \* "/api/v1/iam/groups/"
           <<"/","a","p","i","/","v","1","/","i","a","m","/","g","r","o","u","p","s","/">>
      [] endpoint = "Classes" ->        \* "/api/v1/classes/"
           <<"/","a","p","i","/","v","1","/","c","l","a","s","s","e","s","/">>
      [] endpoint = "Namespaces" ->     \* "/api/v1/namespaces/"
           <<"/","a","p","i","/","v","1","/","n","a","m","e","s","p","a","c","e","s","/">>
      [] endpoint = "ObjectsInClass" -> \* "/api/v1/classes/{class_id}/"
           <<"/","a","p","i","/","v","1","/","c","l","a","s","s","e","s","/",
             "{","c","l","a","s","s","_","i","d","}","/">>
      [] endpoint = "ClassRelations" ->
           \* "/api/v1/classes/{class_id}/relations/"
           <<"/","a","p","i","/","v","1","/","c","l","a","s","s","e","s","/","{","c",
             "l","a","s","s","_","i","d","}","/","r","e","l","a","t","i","o","n","s",
             "/">>
      [] endpoint = "ClassRelationsTransitive" ->
           \* "/api/v1/classes/{class_id}/relations/transitive/"
           <<"/","a","p","i","/","v","1","/","c","l","a","s","s","e","s","/","{","c",
             "l","a","s","s","_","i","d","}","/","r","e","l","a","t","i","o","n","s",
             "/","t","r","a","n","s","i","t","i","v","e","/">>
      [] endpoint = "ClassRelationsTransitiveToClass" ->
           \* "/api/v1/classes/{class_id}/relations/transitive/class/{to_class_id}/"
           <<"/","a","p","i","/","v","1","/","c","l","a","s","s","e","s","/","{","c",
             "l","a","s","s","_","i","d","}","/","r","e","l","a","t","i","o","n","s",
             "/","t","r","a","n","s","i","t","i","v","e","/","c","l","a","s","s","/",
             "{","t","o","_","c","l","a","s","s","_","i","d","}","/">>
      [] endpoint = "ObjectRelations" ->
           \* "/api/v1/classes/{class_id}/{from_object_id}/relations/"
           <<"/","a","p","i","/","v","1","/","c","l","a","s","s","e","s","/","{","c",
             "l","a","s","s","_","i","d","}","/","{","f","r","o","m","_","o","b","j",
             "e","c","t","_","i","d","}","/","r","e","l","a","t","i","o","n","s","/">>
      [] endpoint = "ObjectRelation" ->
           \* "/api/v1/classes/{class_id}/{from_object_id}/relations/{to_class_id}/{to_object_id}"
           <<"/","a","p","i","/","v","1","/","c","l","a","s","s","e","s","/","{","c",
             "l","a","s","s","_","i","d","}","/","{","f","r","o","m","_","o","b","j",
             "e","c","t","_","i","d","}","/","r","e","l","a","t","i","o","n","s","/",
             "{","t","o","_","c","l","a","s","s","_","i","d","}","/","{","t","o","_",
             "o","b","j","e","c","t","_","i","d","}">>
      [] OTHER -> path_undeclared(endpoint)

\* Endpoint::trim_start_matches
trim_start_matches(endpoint, prefix) == TrimStartMatches(path(endpoint), prefix)

\* The resource kinds whose generated endpoint() names a variant of Endpoint
Kinds == {"User", "Group", "Class", "Namespace"}

\* ApiResource::endpoint as generated: Endpoint::<pluralize(name)>
endpoint(kind) ==
    CASE kind = "User" -> "Users"
      [] kind = "Group" -> "Groups"
      [] kind = "Class" -> "Classes"
      [] kind = "Namespace" -> "Namespaces"
      [] kind = "Object" -> "Objects"

\* ------------------------------------------------------------------ base url

\* The client's base_url: the BaseUrl parsed from "http://h", stored with
\* its path normalised to "/"
base_url == <<"h","t","t","p",":","/","/","h","/">>

\* BaseUrl::with_trailing_slash
with_trailing_slash(url) ==
    IF url = <<>> \/ url[Len(url)] # "/" THEN url \o <<"/">> ELSE url

\* ------------------------------------------------------------- query filters

\* impl Display for FilterOperator
OperatorName(op) ==
    CASE op = "Equals" -> <<"e","q","u","a","l","s">>
      [] op = "IEquals" -> <<"i","e","q","u","a","l","s">>
      [] op = "Contains" -> <<"c","o","n","t","a","i","n","s">>
      [] op = "IContains" -> <<"i","c","o","n","t","a","i","n","s">>
      [] op = "StartsWith" -> <<"s","t","a","r","t","s","w","i","t","h">>
      [] op = "IStartsWith" -> <<"i","s","t","a","r","t","s","w","i","t","h">>
      [] op = "EndsWith" -> <<"e","n","d","s","w","i","t","h">>
      [] op = "IEndsWith" -> <<"i","e","n","d","s","w","i","t","h">>
      [] op = "Like" -> <<"l","i","k","e">>
      [] op = "Regex" -> <<"r","e","g","e","x">>
      [] op = "Gt" -> <<"g","t">>
      [] op = "Gte" -> <<"g","t","e">>
      [] op = "Lt" -> <<"l","t">>
      [] op = "Lte" -> <<"l","t","e">>
      [] op = "Between" -> <<"b","e","t","w","e","e","n">>

OperatorToString(operator) ==
    IF operator.is_negated
    THEN <<"n","o","t","_">> \o OperatorName(operator.op)
    ELSE OperatorName(operator.op)

\* QueryFilter::into_tuples: the value with every " " replaced by "%20"
into_tuples(filter) ==
    <<filter.key, OperatorToString(filter.operator),
      Replace(filter.value, <<" ">>, <<"%","2","0">>)>>

RECURSIVE Join(_, _)
Join(parts, sep) ==
    IF parts = <<>> THEN <<>>
    ELSE IF Len(parts) = 1 THEN parts[1]
    ELSE parts[1] \o sep \o Join(Tail(parts), sep)

\* IntoQueryTuples for Vec<QueryFilter>::into_query_string
into_query_string(filters) ==
    Join([i \in 1..Len(filters) |->
            LET t == into_tuples(filters[i])
            IN  t[1] \o <<"_","_">> \o t[2] \o <<"=">> \o t[3]],
         <<"&">>)

\* ------------------------------------------------------------------ build_url

RECURSIVE SubstituteParams(_, _)
SubstituteParams(url, url_params) ==
    IF url_params = <<>> THEN url
    ELSE SubstituteParams(
            Replace(url, <<"{">> \o url_params[1][1] \o <<"}">>, url_params[1][2]),
            Tail(url_params))

\* Endpoint::complete, on the text of the BaseUrl
complete(ep, baseurl) == with_trailing_slash(baseurl) \o trim_start_matches(ep, "/")

\* ClientCore::build_url (blocking client) of a client whose base_url has the
\* text base
build_url_from(base, ep, url_params) ==
    SubstituteParams(with_trailing_slash(base) \o trim_start_matches(ep, "/"),
                     url_params)

\* ClientCore::build_url (blocking client)
build_url(ep, url_params) == build_url_from(base_url, ep, url_params)

\* ------------------------------------------------------- tokens and bodies

Tokens == {"t1", "t2"}

\* Response bodies.  RecordBody and the elements of a ListBody stand for a
\* complete record of the resource kind, identified by its id.
EmptyBody == ""
TextBody == "Bad Gateway"
MessageBody == "{\"message\":\"denied\"}"
ObjectBody == "{\"error\":\"denied\"}"
RecordBody == "{\"id\":1}"
NullBody == "null"

ListBody(n) ==
    CASE n = 0 -> "[]"
      [] n = 1 -> "[{\"id\":1}]"
      [] n = 2 -> "[{\"id\":1},{\"id\":2}]"
      [] n = 3 -> "[{\"id\":1},{\"id\":2},{\"id\":3}]"
      [] n = 4 -> "[{\"id\":1},{\"id\":2},{\"id\":3},{\"id\":4}]"
      [] n = 5 -> "[{\"id\":1},{\"id\":2},{\"id\":3},{\"id\":4},{\"id\":5}]"

TokenBody(t) ==
    CASE t = "t1" -> "{\"token\":\"t1\"}"
      [] t = "t2" -> "{\"token\":\"t2\"}"

ListBodies == {ListBody(n) : n \in 0..MaxRecords}
TokenBodies == {TokenBody(t) : t \in Tokens}
Bodies ==
    {EmptyBody, TextBody, MessageBody, ObjectBody, RecordBody, NullBody}
        \cup ListBodies

\* serde_json::from_str::<Value>(&body) succeeds
IsJson(body) == body \notin {EmptyBody, TextBody}

\* json["message"].as_str(): <<m>> for Some(m), <<>> for None
MessageField(body) == IF body = MessageBody THEN <<"denied">> ELSE <<>>

\* serde_json::from_str::<U>(&body) for the output shapes U the client uses:
\* "list" (Vec<R::GetOutput>), "record" (R::PostOutput, R::PatchOutput),
\* "token" (Token) and "unit" (()).  <<v>> for Ok(v), <<>> for Err.
from_str(body, shape) ==
    CASE shape = "list" ->
           IF body \in {ListBody(n) : n \in 0..5}
           THEN <<[i \in 1..(CHOOSE n \in 0..5 : body = ListBody(n)) |-> i]>>
           ELSE <<>>
      [] shape = "record" -> IF body = RecordBody THEN <<1>> ELSE <<>>
      [] shape = "token" ->
           IF body \in TokenBodies
           THEN <<CHOOSE t \in Tokens : body = TokenBody(t)>>
           ELSE <<>>
      [] shape = "unit" -> IF body = NullBody THEN <<"()">> ELSE <<>>

\* StatusCode::is_success
is_success(status) == 200 <= status /\ status <= 299

NO_CONTENT == 204

Statuses == {200, NO_CONTENT, 404}

\* What the transport does with one request: send() fails (arrived = FALSE),
\* or a response with a status arrives whose body can be read (text_ok) or
\* cannot.
TransportFailure == [arrived |-> FALSE, status |-> 0, text_ok |-> FALSE, body |-> ""]
Unreadable(s) == [arrived |-> TRUE, status |-> s, text_ok |-> FALSE, body |-> ""]
Answer(s, b) == [arrived |-> TRUE, status |-> s, text_ok |-> TRUE, body |-> b]

Responses ==
    {TransportFailure} \cup {Unreadable(s) : s \in Statuses}
        \cup {Answer(s, b) : s \in Statuses, b \in Bodies}

\* ------------------------------------------------------------------ results

\* Result<_, ApiError>: a tag and a payload tuple
Ok(v) == [tag |-> "Ok", val |-> <<v>>]
OkUnit == [tag |-> "Ok", val |-> <<>>]
OkSome(v) == [tag |-> "OkSome", val |-> <<v>>]
OkNone == [tag |-> "OkNone", val |-> <<>>]
Err(kind, payload) == [tag |-> kind, val |-> payload]
IsOk(r) == r.tag \in {"Ok", "OkSome", "OkNone"}

\* ------------------------------------------------------------ post_params

EmptyPostParams == [kind |-> "EmptyPostParams", n |-> 0]
I32(n) == [kind |-> "i32", n |-> n]
Payload == [kind |-> "Payload", n |-> 0]

\* format!("{:?}", post_params): EmptyPostParams writes "", an i32 its
\* decimal form
DebugFmt(post_params) ==
    IF post_params.kind = "i32" THEN to_string(post_params.n) ELSE <<>>

\* ---------------------------------------------------- check_success

\* Faulty variant of check_success: the raw body is always the message
check_success_raw(response) ==
    IF ~is_success(response.status)
    THEN IF ~response.text_ok THEN <<Err("Http", <<"body">>)>>
         ELSE <<Err("HttpWithBody", <<response.status, response.body>>)>>
    ELSE <<>>

\* ResponseHandler::check_success: <<>> when the response passes, else the
\* error (reading the body of a rejected response may itself fail)
check_success(response) ==
    IF ~is_success(response.status)
    THEN IF ~response.text_ok THEN <<Err("Http", <<"body">>)>>
         ELSE <<Err("HttpWithBody",
                    <<response.status,
                      IF IsJson(response.body)
                      THEN IF MessageField(response.body) # <<>>
                           THEN MessageField(response.body)[1]
                           ELSE "Error without message."
                      ELSE response.body>>)>>
    ELSE <<>>

\* ------------------------------------------------- request_with_endpoint

patch_id == <<"p","a","t","c","h","_","i","d">>

Bearer(t) == <<"Bearer", t>>

HttpRequest(method, url, auth, json) ==
    [method |-> method, url |-> url, auth |-> auth, json |-> json]

\* Faulty variant of Send: the request is sent a second time
SendAgain(req) == [err |-> <<>>, req |-> <<req, req>>]

Send(req) == [err |-> <<>>, req |-> <<req>>]
Fail(e) == [err |-> <<e>>, req |-> <<>>]

\* The arms of the match on method in request_with_endpoint, each with the
\* Authorization header attached to the match's value: the request to send,
\* or the error returned instead of sending one
GetArm(tok, url, query_params) ==
    LET query == into_query_string(query_params)
    IN  Send(HttpRequest("GET", IF query # <<>> THEN url \o <<"?">> \o query ELSE url,
                         Bearer(tok), <<>>))

PostArm(tok, url, post_params) ==
    Send(HttpRequest("POST", url, Bearer(tok), <<post_params>>))

\* Faulty variant of PatchArm: without a patch_id the PATCH goes to the
\* collection URL
PatchArmUnchecked(tok, url, url_params, post_params) ==
    LET ids == SelectSeq(url_params, LAMBDA p : p[1] = patch_id)
    IN  Send(HttpRequest("PATCH", IF ids = <<>> THEN url ELSE url \o ids[1][2],
                         Bearer(tok), <<post_params>>))

PatchArm(tok, url, url_params, post_params) ==
    LET ids == SelectSeq(url_params, LAMBDA p : p[1] = patch_id)
    IN  IF ids = <<>> THEN Fail(Err("MissingUrlIdentifier", <<>>))
        ELSE Send(HttpRequest("PATCH", url \o ids[1][2], Bearer(tok), <<post_params>>))

\* Faulty variant of DeleteArm: the header is not attached
DeleteArmNoAuth(tok, url, post_params) ==
    Send(HttpRequest("DELETE", url \o DebugFmt(post_params), <<>>, <<>>))

DeleteArm(tok, url, post_params) ==
    Send(HttpRequest("DELETE", url \o DebugFmt(post_params), Bearer(tok), <<>>))

BuildRequest(tok, method, ep, url_params, query_params, post_params) ==
    LET url == build_url(ep, url_params)
    IN  CASE method = "GET" -> GetArm(tok, url, query_params)
          [] method = "POST" -> PostArm(tok, url, post_params)
          [] method = "PATCH" -> PatchArm(tok, url, url_params, post_params)
          [] method = "DELETE" -> DeleteArm(tok, url, post_params)
          [] OTHER -> Fail(Err("UnsupportedHttpOperation", <<method>>))

\* Faulty variant of ClassifyBody: the 204 test comes before the DELETE test
ClassifyBodyNoContentFirst(method, shape, status, body) ==
    IF status = NO_CONTENT THEN OkNone
    ELSE IF method = "DELETE"
    THEN IF body = "" THEN OkNone ELSE Err("DeserializationError", <<body>>)
    ELSE IF from_str(body, shape) = <<>> THEN Err("DeserializationError", <<body>>)
    ELSE OkSome(from_str(body, shape)[1])

\* Faulty variant of ClassifyBody: a body that does not parse yields no value
ClassifyBodyLenient(method, shape, status, body) ==
    IF method = "DELETE"
    THEN IF body = "" THEN OkNone ELSE Err("DeserializationError", <<body>>)
    ELSE IF status = NO_CONTENT THEN OkNone
    ELSE IF from_str(body, shape) = <<>> THEN OkNone
    ELSE OkSome(from_str(body, shape)[1])

\* What request_with_endpoint makes of the text of a response that passed
\* check_success
ClassifyBody(method, shape, status, body) ==
    IF method = "DELETE"
    THEN IF body = "" THEN OkNone ELSE Err("DeserializationError", <<body>>)
    ELSE IF status = NO_CONTENT THEN OkNone
    ELSE IF from_str(body, shape) = <<>> THEN Err("DeserializationError", <<body>>)
    ELSE OkSome(from_str(body, shape)[1])

\* request.send()?, check_success(response)?, .text()? and the classification
HandleResponse(method, shape, response) ==
    IF ~response.arrived THEN Err("Http", <<"send">>)
    ELSE IF check_success(response) # <<>> THEN check_success(response)[1]
    ELSE IF ~response.text_ok THEN Err("Http", <<"body">>)
    ELSE ClassifyBody(method, shape, response.status, response.body)

\* Client<Authenticated>::request_with_endpoint: the requests it sends and
\* the result it returns when the transport answers with response
request_with_endpoint(tok, method, ep, url_params, query_params, post_params, shape, response) ==
    LET b == BuildRequest(tok, method, ep, url_params, query_params, post_params)
    IN  IF b.err # <<>>
        THEN [sent |-> <<>>, result |-> b.err[1]]
        ELSE [sent |-> b.req, result |-> HandleResponse(method, shape, response)]

\* Client<Authenticated>::request
request(tok, method, kind, url_params, query_params, post_params, shape, response) ==
    request_with_endpoint(tok, method, endpoint(kind), url_params, query_params,
                          post_params, shape, response)

\* Faulty variant of OkOrEmptyResult: no value becomes an empty list
OkOrEmptyList(r, msg) ==
    [sent |-> r.sent,
     result |-> IF r.result.tag = "OkSome" THEN Ok(r.result.val[1])
                ELSE IF r.result.tag = "OkNone" THEN Ok(<<>>)
                ELSE r.result]

\* .and_then(|opt| opt.ok_or(ApiError::EmptyResult(msg)))
OkOrEmptyResult(r, msg) ==
    [sent |-> r.sent,
     result |-> IF r.result.tag = "OkSome" THEN Ok(r.result.val[1])
                ELSE IF r.result.tag = "OkNone" THEN Err("EmptyResult", <<msg>>)
                ELSE r.result]

\* Client<Authenticated>::get
get(tok, kind, url_params, query_params, response) ==
    OkOrEmptyResult(request(tok, "GET", kind, url_params, query_params, Payload,
                            "list", response),
                    "GET returned empty result")

\* Client<Authenticated>::search
search(tok, kind, url_params, query_params, response) ==
    OkOrEmptyResult(request(tok, "GET", kind, url_params, query_params,
                            EmptyPostParams, "list", response),
                    "SEARCH returned empty result")

\* Client<Authenticated>::post
post(tok, kind, url_params, response) ==
    OkOrEmptyResult(request(tok, "POST", kind, url_params, <<>>, Payload,
                            "record", response),
                    "POST returned empty result")

\* Client<Authenticated>::patch
patch(tok, kind, id, url_params, response) ==
    OkOrEmptyResult(request(tok, "PATCH", kind,
                            Append(url_params, <<patch_id, to_string(id)>>),
                            <<>>, Payload, "record", response),
                    "PATCH returned empty result")

\* Client<Authenticated>::delete
delete(tok, kind, id, url_params, response) ==
    LET r == request(tok, "DELETE", kind, url_params, <<>>, I32(id), "unit", response)
    IN  [sent |-> r.sent, result |-> IF IsOk(r.result) THEN OkUnit ELSE r.result]

\* Faulty variant of one_or_err: the first of several elements is returned
one_or_err_first(v, name) ==
    IF v = <<>> THEN Err("EmptyResult", <<name, "not found">>) ELSE Ok(v[1])

\* one_or_err, name being the last segment of type_name::<T>()
one_or_err(v, name) ==
    IF Len(v) = 1 THEN Ok(v[Len(v)])
    ELSE IF v = <<>> THEN Err("EmptyResult", <<name, "not found">>)
    ELSE Err("TooManyResults", <<name, Len(v)>>)

\* ApiResource::build_params as generated: one QueryFilter per tuple
build_params(filters) ==
    [i \in 1..Len(filters) |->
        [key |-> filters[i][1], value |-> filters[i][3], operator |-> filters[i][2]]]

\* ------------------------------------------------------------------- login

\* Faulty variant of login: error_for_status() is not called
login_any_status(credentials, response) ==
    [sent |-> <<HttpRequest("POST", build_url("Login", <<>>), <<>>, <<credentials>>)>>,
     result |->
        IF ~response.arrived THEN Err("Http", <<"send">>)
        ELSE IF ~response.text_ok \/ from_str(response.body, "token") = <<>>
             THEN Err("Http", <<"decode">>)
        ELSE Ok(from_str(response.body, "token")[1])]

\* Faulty variant of login: a body without a token gives the default token
login_default_token(credentials, response) ==
    [sent |-> <<HttpRequest("POST", build_url("Login", <<>>), <<>>, <<credentials>>)>>,
     result |->
        IF ~response.arrived THEN Err("Http", <<"send">>)
        ELSE IF ~is_success(response.status) THEN Err("Http", <<"status">>)
        ELSE IF ~response.text_ok \/ from_str(response.body, "token") = <<>>
             THEN Ok("")
        ELSE Ok(from_str(response.body, "token")[1])]

\* Client<Unauthenticated>::login: send()?.error_for_status()?.json()?
login(credentials, response) ==
    [sent |-> <<HttpRequest("POST", build_url("Login", <<>>), <<>>, <<credentials>>)>>,
     result |->
        IF ~response.arrived THEN Err("Http", <<"send">>)
        ELSE IF ~is_success(response.status) THEN Err("Http", <<"status">>)
        ELSE IF ~response.text_ok \/ from_str(response.body, "token") = <<>>
             THEN Err("Http", <<"decode">>)
        ELSE Ok(from_str(response.body, "token")[1])]

\* Faulty variant of login_with_token: a request that cannot be sent counts
\* as a rejected token
login_with_token_no_transport(t, response) ==
    [sent |-> <<HttpRequest("GET", build_url("LoginWithToken", <<>>), Bearer(t), <<>>)>>,
     result |->
        IF response.arrived /\ is_success(response.status) THEN Ok(t)
        ELSE Err("InvalidToken", <<>>)]

\* Client<Unauthenticated>::login_with_token
login_with_token(t, response) ==
    [sent |-> <<HttpRequest("GET", build_url("LoginWithToken", <<>>), Bearer(t), <<>>)>>,
     result |->
        IF ~response.arrived THEN Err("Http", <<"send">>)
        ELSE IF is_success(response.status) THEN Ok(t)
        ELSE Err("InvalidToken", <<>>)]

\* ------------------------------------------------------------- input sets

Credentials == {"alice:secret"}

Ids == 1..MaxId

Methods == {"GET", "POST", "PATCH", "DELETE", "PUT"}

id_key == <<"i","d">>
name_key == <<"n","a","m","e">>
class_id == <<"c","l","a","s","s","_","i","d">>
group_id == <<"g","r","o","u","p","_","i","d">>
user_id == <<"u","s","e","r","_","i","d">>
namespace_id == <<"n","a","m","e","s","p","a","c","e","_","i","d">>

\* URL parameters a caller passes to the client operations
UrlParamChoices ==
    {<<>>, <<<<patch_id, to_string(MaxId)>>>>, <<<<id_key, to_string(MaxId)>>>>}

Equals(neg) == [op |-> "Equals", is_negated |-> neg]
Gt(neg) == [op |-> "Gt", is_negated |-> neg]

\* (field, operator, value) tuples a caller passes to add_filter
FilterChoices ==
    {<<<<"n","a","m","e">>, Equals(FALSE), <<"a"," ","b">>>>,
     <<id_key, Gt(TRUE), <<"1">>>>}

\* query_params a caller passes to get, search and request
QueryChoices == {<<>>} \cup {build_params(<<f>>) : f \in FilterChoices}

Shapes == {"list", "record", "unit"}

\* The class whose objects a caller asks for with objects(class_id)
ClassIds == {MaxId}

\* The Resource<T> collections of the client: users(), groups(), classes()
\* and namespaces() carry no URL parameters, objects(class_id) carries the
\* class_id
Resources ==
    {[kind |-> kind, url_params |-> <<>>] : kind \in Kinds}
    \cup {[kind |-> "Object", url_params |-> <<<<class_id, to_string(c)>>>>] :
            c \in ClassIds}

\* ------------------------------------------------------------------- state

VARIABLES
    state,        \* the client's S: "Unauthenticated", "Authenticated", or
                  \* "Consumed" once login has taken the value and failed
    token,        \* Authenticated.token
    established,  \* history: the token the login endpoint issued, or the caller
                  \* passed to login_with_token, in the login that succeeded
    builder,      \* the FilterBuilder of the fluent chain in progress
    handle,       \* the Handle returned by the last successful select
    call,         \* the method call the caller has made, with its arguments,
                  \* until the caller drops what it returned (NoCall then)
    resp,         \* <<response>> the transport gave that call, or <<>>
    sent,         \* the requests that call sent
    result,       \* what that call returned
    applied,      \* the library function (filter, base URL, derive macro) applied
                  \* outside any client call, with its arguments
    returned      \* what that function returned

vars == <<state, token, established, builder, handle, call, resp, sent, result,
          applied, returned>>

\* The client's own state, and the state of a library function application
clientVars == <<state, token, established, builder, handle, call, resp, sent, result>>
libraryVars == <<applied, returned>>

Applied(fn, args) == [fn |-> fn, args |-> args]
NothingApplied == Applied("", <<>>)

NoBuilder == [live |-> FALSE, client |-> "", kind |-> "", url_params |-> <<>>,
              filters |-> <<>>]
NoHandle == [live |-> FALSE, client |-> "", kind |-> "", id |-> 0]

Call(name, method, kind, url_params, query_params, post_params, shape) ==
    [name |-> name, method |-> method, kind |-> kind, url_params |-> url_params,
     query_params |-> query_params, post_params |-> post_params, shape |-> shape,
     id |-> 0, token |-> "", by_name |-> <<>>]

NoArgs(name) == Call(name, "", "", <<>>, <<>>, EmptyPostParams, "")

NoCall == NoArgs("")

\* The caller makes one call at a time and has dropped the value the last one
\* returned; a fluent chain find().add_filter(..)*.execute() is one expression,
\* with no other call inside it
Ready == call = NoCall
NoChain == ~builder.live

\* Client::new(base_url)
Init ==
    /\ state = "Unauthenticated"
    /\ token = ""
    /\ established = ""
    /\ builder = NoBuilder
    /\ handle = NoHandle
    /\ call = NoCall
    /\ resp = <<>>
    /\ sent = <<>>
    /\ result = OkUnit
    /\ applied = NothingApplied
    /\ returned = <<>>

\* Client::new(base_url), after a failed login has consumed the client
New ==
    /\ Ready
    /\ state = "Consumed"
    /\ state' = "Unauthenticated"
    /\ UNCHANGED <<token, established, builder, handle, call, resp, sent, result>>
    /\ UNCHANGED libraryVars

\* The caller drops the value its last call returned
DropResult ==
    /\ ~Ready
    /\ call' = NoCall
    /\ resp' = <<>>
    /\ sent' = <<>>
    /\ result' = OkUnit
    /\ UNCHANGED <<state, token, established, builder, handle>>
    /\ UNCHANGED libraryVars

\* What login and login_with_token do to the client with their outcome r:
\* self is moved into the call, and only Ok carries a client out of it
Authenticate(r) ==
    /\ sent' = r.sent
    /\ result' = r.result
    /\ IF IsOk(r.result)
       THEN /\ state' = "Authenticated"
            /\ token' = r.result.val[1]
       ELSE /\ state' = "Consumed"
            /\ UNCHANGED token
    /\ UNCHANGED <<builder, handle>>

Login ==
    /\ Ready
    /\ state = "Unauthenticated"
    /\ \E credentials \in Credentials, issued \in Tokens :
       \E response \in Responses \cup {Answer(s, TokenBody(issued)) : s \in Statuses} :
          LET r == login(credentials, response)
          IN  /\ call' = [NoArgs("login") EXCEPT !.method = "POST", !.shape = "token"]
              /\ resp' = <<response>>
              /\ Authenticate(r)
              /\ established' = IF IsOk(r.result) THEN issued ELSE established
    /\ UNCHANGED libraryVars

LoginWithToken ==
    /\ Ready
    /\ state = "Unauthenticated"
    /\ \E t \in Tokens, response \in Responses :
          LET r == login_with_token(t, response)
          IN  /\ call' = [NoArgs("login_with_token") EXCEPT !.method = "GET", !.token = t]
              /\ resp' = <<response>>
              /\ Authenticate(r)
              /\ established' = IF IsOk(r.result) THEN t ELSE established
    /\ UNCHANGED libraryVars

\* A call on Client<Authenticated> with outcome r
Returns(r, response) ==
    /\ sent' = r.sent
    /\ resp' = IF r.sent = <<>> THEN <<>> ELSE <<response>>
    /\ result' = r.result
    /\ UNCHANGED <<state, token, established>>

\* client.request(..): the body parameter is EmptyPostParams or an i32, the two
\* types whose {:?} form the DELETE arm's URL is known for
Request ==
    /\ Ready /\ NoChain
    /\ state = "Authenticated"
    /\ \E method \in Methods, kind \in Kinds, url_params \in UrlParamChoices,
          query_params \in QueryChoices, post_params \in {EmptyPostParams, I32(1)},
          shape \in Shapes, response \in Responses :
          /\ call' = Call("request", method, kind, url_params, query_params,
                          post_params, shape)
          /\ Returns(request(token, method, kind, url_params, query_params,
                             post_params, shape, response), response)
          /\ UNCHANGED <<builder, handle>>
    /\ UNCHANGED libraryVars

Get ==
    /\ Ready /\ NoChain
    /\ state = "Authenticated"
    /\ \E kind \in Kinds, url_params \in UrlParamChoices,
          query_params \in QueryChoices, response \in Responses :
          /\ call' = Call("get", "GET", kind, url_params, query_params, Payload, "list")
          /\ Returns(get(token, kind, url_params, query_params, response), response)
          /\ UNCHANGED <<builder, handle>>
    /\ UNCHANGED libraryVars

Search ==
    /\ Ready /\ NoChain
    /\ state = "Authenticated"
    /\ \E kind \in Kinds, url_params \in UrlParamChoices,
          query_params \in QueryChoices, response \in Responses :
          /\ call' = Call("search", "GET", kind, url_params, query_params,
                          EmptyPostParams, "list")
          /\ Returns(search(token, kind, url_params, query_params, response), response)
          /\ UNCHANGED <<builder, handle>>
    /\ UNCHANGED libraryVars

Post ==
    /\ Ready /\ NoChain
    /\ state = "Authenticated"
    /\ \E kind \in Kinds, url_params \in UrlParamChoices, response \in Responses :
          /\ call' = Call("post", "POST", kind, url_params, <<>>, Payload, "record")
          /\ Returns(post(token, kind, url_params, response), response)
          /\ UNCHANGED <<builder, handle>>
    /\ UNCHANGED libraryVars

Patch ==
    /\ Ready /\ NoChain
    /\ state = "Authenticated"
    /\ \E kind \in Kinds, id \in Ids, url_params \in UrlParamChoices,
          response \in Responses :
          /\ call' = [Call("patch", "PATCH", kind, url_params, <<>>, Payload, "record")
                        EXCEPT !.id = id]
          /\ Returns(patch(token, kind, id, url_params, response), response)
          /\ UNCHANGED <<builder, handle>>
    /\ UNCHANGED libraryVars

Delete ==
    /\ Ready /\ NoChain
    /\ state = "Authenticated"
    /\ \E kind \in Kinds, id \in Ids, url_params \in UrlParamChoices,
          response \in Responses :
          /\ call' = [Call("delete", "DELETE", kind, url_params, <<>>, I32(id), "unit")
                        EXCEPT !.id = id]
          /\ Returns(delete(token, kind, id, url_params, response), response)
          /\ UNCHANGED <<builder, handle>>
    /\ UNCHANGED libraryVars

\* client.<kind>s().find(): Resource::new(client.clone(), UrlParams::default())
\* followed by FilterBuilder::new(client.clone(), url_params.clone())
Find ==
    /\ Ready /\ NoChain
    /\ state = "Authenticated"
    /\ \E resource \in Resources :
          builder' = [live |-> TRUE, client |-> token, kind |-> resource.kind,
                      url_params |-> resource.url_params, filters |-> <<>>]
    /\ UNCHANGED <<state, token, established, handle, call, resp, sent, result>>
    /\ UNCHANGED libraryVars

\* FilterBuilder::add_filter
AddFilter ==
    /\ Ready
    /\ builder.live
    /\ Len(builder.filters) < MaxFilters
    /\ \E f \in FilterChoices :
          builder' = [builder EXCEPT !.filters = Append(@, f)]
    /\ UNCHANGED <<state, token, established, handle, call, resp, sent, result>>
    /\ UNCHANGED libraryVars

\* Faulty variant of execute: a filter added twice is sent once
execute_distinct_filters(b, response) ==
    search(b.client, b.kind, b.url_params,
           build_params(IF Len(b.filters) >= 2 /\ b.filters[1] = b.filters[2]
                        THEN Tail(b.filters) ELSE b.filters),
           response)

\* FilterBuilder::execute, which consumes the builder
execute(b, response) ==
    search(b.client, b.kind, b.url_params, build_params(b.filters), response)

\* FilterBuilder::execute_expecting_single_result
execute_expecting_single_result(b, response) ==
    LET r == execute(b, response)
    IN  [sent |-> r.sent,
         result |-> IF IsOk(r.result) THEN one_or_err(r.result.val[1], b.kind)
                    ELSE r.result]

Execute ==
    /\ Ready
    /\ builder.live
    /\ \E response \in Responses :
          /\ call' = Call("execute", "GET", builder.kind, builder.url_params,
                          build_params(builder.filters), EmptyPostParams, "list")
          /\ Returns(execute(builder, response), response)
    /\ builder' = NoBuilder
    /\ UNCHANGED handle
    /\ UNCHANGED libraryVars

ExecuteExpectingSingleResult ==
    /\ Ready
    /\ builder.live
    /\ \E response \in Responses :
          /\ call' = Call("execute_expecting_single_result", "GET", builder.kind,
                          builder.url_params, build_params(builder.filters),
                          EmptyPostParams, "list")
          /\ Returns(execute_expecting_single_result(builder, response), response)
    /\ builder' = NoBuilder
    /\ UNCHANGED handle
    /\ UNCHANGED libraryVars

\* Resource<T>::select: the outcome and, on success, the record it wraps
select(tok, kind, id, response) ==
    LET r == get(tok, kind, <<<<id_key, to_string(id)>>>>,
                 <<[key |-> id_key, value |-> to_string(id),
                    operator |-> Equals(FALSE)]>>,
                 response)
    IN  [sent |-> r.sent,
         result |-> IF IsOk(r.result) THEN one_or_err(r.result.val[1], kind)
                    ELSE r.result]

\* client.<kind>s().select(id)
Select ==
    /\ Ready /\ NoChain
    /\ state = "Authenticated"
    /\ \E resource \in Resources, id \in Ids, response \in Responses :
          LET kind == resource.kind
              r == select(token, kind, id, response)
          IN  /\ call' = [Call("select", "GET", kind, resource.url_params, <<>>,
                                Payload, "list")
                            EXCEPT !.id = id]
              /\ Returns(r, response)
              /\ handle' = IF IsOk(r.result)
                           THEN [live |-> TRUE, client |-> token, kind |-> kind,
                                 id |-> r.result.val[1]]
                           ELSE handle
    /\ UNCHANGED builder
    /\ UNCHANGED libraryVars

\* ApiResource::NAME_FIELD: no impl overrides the trait's default
NAME_FIELD(kind) == name_key

\* Resource<T>::select_by_name
select_by_name(tok, kind, name, response) ==
    LET r == get(tok, kind, <<<<NAME_FIELD(kind), name>>>>,
                 <<[key |-> NAME_FIELD(kind), value |-> name,
                    operator |-> Equals(FALSE)]>>,
                 response)
    IN  [sent |-> r.sent,
         result |-> IF IsOk(r.result) THEN one_or_err(r.result.val[1], kind)
                    ELSE r.result]

\* The names a caller selects by
SelectNames == {<<"g">>}

\* client.<kind>s().select_by_name(name)
SelectByName ==
    /\ Ready /\ NoChain
    /\ state = "Authenticated"
    /\ \E resource \in Resources, name \in SelectNames, response \in Responses :
          LET kind == resource.kind
              r == select_by_name(token, kind, name, response)
          IN  /\ call' = [Call("select_by_name", "GET", kind, resource.url_params,
                                <<>>, Payload, "list")
                            EXCEPT !.by_name = name]
              /\ Returns(r, response)
              /\ handle' = IF IsOk(r.result)
                           THEN [live |-> TRUE, client |-> token, kind |-> kind,
                                 id |-> r.result.val[1]]
                           ELSE handle
    /\ UNCHANGED builder
    /\ UNCHANGED libraryVars

\* Handle<Class>::delete
handle_class_delete(h, response) ==
    LET r == request_with_endpoint(h.client, "DELETE", "Classes",
                                   <<<<id_key, to_string(h.id)>>>>, <<>>,
                                   EmptyPostParams, "unit", response)
    IN  [sent |-> r.sent, result |-> IF IsOk(r.result) THEN OkUnit ELSE r.result]

HandleClassDelete ==
    /\ Ready /\ NoChain
    /\ handle.live
    /\ handle.kind = "Class"
    /\ \E response \in Responses :
          /\ call' = [Call("Handle<Class>::delete", "DELETE", "Class", <<>>, <<>>,
                           EmptyPostParams, "unit") EXCEPT !.id = handle.id]
          /\ Returns(handle_class_delete(handle, response), response)
    /\ UNCHANGED <<builder, handle>>
    /\ UNCHANGED libraryVars

\* The Handles made of the records of a list, each with a clone of client
Handles(client, kind, records) ==
    [i \in 1..Len(records) |->
        [live |-> TRUE, client |-> client, kind |-> kind, id |-> records[i]]]

\* Handle<Class>::objects
handle_class_objects(h, response) ==
    LET r == get(h.client, "Object", <<<<class_id, to_string(h.id)>>>>, <<>>, response)
    IN  [sent |-> r.sent,
         result |-> IF IsOk(r.result)
                    THEN Ok(Handles(h.client, "Object", r.result.val[1]))
                    ELSE r.result]

\* Handle<Group>::add_user
handle_group_add_user(h, user, response) ==
    LET r == request_with_endpoint(h.client, "POST", "GroupMembersAddRemove",
                                   <<<<group_id, to_string(h.id)>>,
                                     <<user_id, to_string(user)>>>>,
                                   <<>>, EmptyPostParams, "unit", response)
    IN  [sent |-> r.sent, result |-> IF IsOk(r.result) THEN OkUnit ELSE r.result]

\* Handle<Group>::remove_user
handle_group_remove_user(h, user, response) ==
    LET r == request_with_endpoint(h.client, "DELETE", "GroupMembersAddRemove",
                                   <<<<group_id, to_string(h.id)>>,
                                     <<user_id, to_string(user)>>>>,
                                   <<>>, EmptyPostParams, "unit", response)
    IN  [sent |-> r.sent, result |-> IF IsOk(r.result) THEN OkUnit ELSE r.result]

\* Handle<Group>::members: None => Ok(vec![]), Some(users) => their Handles
handle_group_members(h, response) ==
    LET r == request_with_endpoint(h.client, "GET", "GroupMembers",
                                   <<<<group_id, to_string(h.id)>>>>,
                                   <<>>, EmptyPostParams, "list", response)
    IN  [sent |-> r.sent,
         result |-> IF r.result.tag = "OkNone" THEN Ok(<<>>)
                    ELSE IF r.result.tag = "OkSome"
                    THEN Ok(Handles(h.client, "User", r.result.val[1]))
                    ELSE r.result]

\* Handle<Namespace>::permissions: None => Ok(vec![]), Some(users) => Ok(users)
handle_namespace_permissions(h, response) ==
    LET r == request_with_endpoint(h.client, "GET", "NamespacePermissions",
                                   <<<<namespace_id, to_string(h.id)>>>>,
                                   <<>>, EmptyPostParams, "list", response)
    IN  [sent |-> r.sent,
         result |-> IF r.result.tag = "OkNone" THEN Ok(<<>>)
                    ELSE IF r.result.tag = "OkSome" THEN Ok(r.result.val[1])
                    ELSE r.result]

\* A call of a method of the Handle the caller holds
HandleCall(name, method, kind, shape, r, response) ==
    /\ call' = [Call(name, method, kind, <<>>, <<>>, EmptyPostParams, shape)
                  EXCEPT !.id = handle.id]
    /\ Returns(r, response)
    /\ UNCHANGED <<builder, handle>>

HandleClassObjects ==
    /\ Ready /\ NoChain
    /\ handle.live /\ handle.kind = "Class"
    /\ \E response \in Responses :
          HandleCall("Handle<Class>::objects", "GET", "Object", "list",
                     handle_class_objects(handle, response), response)
    /\ UNCHANGED libraryVars

HandleGroupAddUser ==
    /\ Ready /\ NoChain
    /\ handle.live /\ handle.kind = "Group"
    /\ \E user \in Ids, response \in Responses :
          HandleCall("Handle<Group>::add_user", "POST", "Group", "unit",
                     handle_group_add_user(handle, user, response), response)
    /\ UNCHANGED libraryVars

HandleGroupRemoveUser ==
    /\ Ready /\ NoChain
    /\ handle.live /\ handle.kind = "Group"
    /\ \E user \in Ids, response \in Responses :
          HandleCall("Handle<Group>::remove_user", "DELETE", "Group", "unit",
                     handle_group_remove_user(handle, user, response), response)
    /\ UNCHANGED libraryVars

HandleGroupMembers ==
    /\ Ready /\ NoChain
    /\ handle.live /\ handle.kind = "Group"
    /\ \E response \in Responses :
          HandleCall("Handle<Group>::members", "GET", "User", "list",
                     handle_group_members(handle, response), response)
    /\ UNCHANGED libraryVars

HandleNamespacePermissions ==
    /\ Ready /\ NoChain
    /\ handle.live /\ handle.kind = "Namespace"
    /\ \E response \in Responses :
          HandleCall("Handle<Namespace>::permissions", "GET", "Namespace", "list",
                     handle_namespace_permissions(handle, response), response)
    /\ UNCHANGED libraryVars

\* Resource<T>::filter_expecting_single_result
filter_expecting_single_result(tok, resource, params, response) ==
    LET r == search(tok, resource.kind, resource.url_params, params, response)
    IN  [sent |-> r.sent,
         result |-> IF IsOk(r.result) THEN one_or_err(r.result.val[1], resource.kind)
                    ELSE r.result]

\* A call of a method of a Resource<T> the caller got from the client
ResourceCall(c, r, response) ==
    /\ call' = c
    /\ Returns(r, response)
    /\ UNCHANGED <<builder, handle>>

\* Resource<T>::filter
Filter ==
    /\ Ready /\ NoChain
    /\ state = "Authenticated"
    /\ \E resource \in Resources, params \in QueryChoices, response \in Responses :
          ResourceCall(Call("filter", "GET", resource.kind, resource.url_params,
                            params, EmptyPostParams, "list"),
                       search(token, resource.kind, resource.url_params, params,
                              response),
                       response)
    /\ UNCHANGED libraryVars

FilterExpectingSingleResult ==
    /\ Ready /\ NoChain
    /\ state = "Authenticated"
    /\ \E resource \in Resources, params \in QueryChoices, response \in Responses :
          ResourceCall(Call("filter_expecting_single_result", "GET", resource.kind,
                            resource.url_params, params, EmptyPostParams, "list"),
                       filter_expecting_single_result(token, resource, params,
                                                      response),
                       response)
    /\ UNCHANGED libraryVars

\* Resource<T>::create
Create ==
    /\ Ready /\ NoChain
    /\ state = "Authenticated"
    /\ \E resource \in Resources, response \in Responses :
          ResourceCall(Call("create", "POST", resource.kind, resource.url_params,
                            <<>>, Payload, "record"),
                       post(token, resource.kind, resource.url_params, response),
                       response)
    /\ UNCHANGED libraryVars

\* Resource<T>::update
Update ==
    /\ Ready /\ NoChain
    /\ state = "Authenticated"
    /\ \E resource \in Resources, id \in Ids, response \in Responses :
          ResourceCall([Call("update", "PATCH", resource.kind, resource.url_params,
                             <<>>, Payload, "record") EXCEPT !.id = id],
                       patch(token, resource.kind, id, resource.url_params, response),
                       response)
    /\ UNCHANGED libraryVars

\* Resource<T>::delete
ResourceDelete ==
    /\ Ready /\ NoChain
    /\ state = "Authenticated"
    /\ \E resource \in Resources, id \in Ids, response \in Responses :
          ResourceCall([Call("Resource::delete", "DELETE", resource.kind,
                             resource.url_params, <<>>, I32(id), "unit")
                          EXCEPT !.id = id],
                       delete(token, resource.kind, id, resource.url_params, response),
                       response)
    /\ UNCHANGED libraryVars

Next ==
    \/ New
    \/ DropResult
    \/ Login
    \/ LoginWithToken
    \/ Request
    \/ Get
    \/ Search
    \/ Post
    \/ Patch
    \/ Delete
    \/ Find
    \/ AddFilter
    \/ Execute
    \/ ExecuteExpectingSingleResult
    \/ Select
    \/ SelectByName
    \/ Filter
    \/ FilterExpectingSingleResult
    \/ Create
    \/ Update
    \/ ResourceDelete
    \/ HandleClassDelete
    \/ HandleClassObjects
    \/ HandleGroupAddUser
    \/ HandleGroupRemoveUser
    \/ HandleGroupMembers
    \/ HandleNamespacePermissions

Spec == Init /\ [][Next]_vars

\* ------------------------------------------- library: types/filter.rs

Operators ==
    {"Equals", "IEquals", "Contains", "IContains", "StartsWith", "IStartsWith",
     "EndsWith", "IEndsWith", "Like", "Regex", "Gt", "Gte", "Lt", "Lte", "Between"}

\* every FilterOperator value
FilterOperators == [op : Operators, is_negated : BOOLEAN]

DataTypes == {"String", "NumericOrDate", "Boolean", "Array"}

\* A mutant of is_applicable_to: IContains in the Contains arm
is_applicable_to_icontains(operator, data_type) ==
    CASE operator.op = "Equals" -> TRUE
      [] operator.op \in {"Gt", "Gte", "Lt", "Lte", "Between"} ->
            data_type = "NumericOrDate"
      [] operator.op \in {"Contains", "IContains"} ->
            data_type = "String" \/ data_type = "Array"
      [] OTHER -> data_type = "String"

\* FilterOperator::is_applicable_to
is_applicable_to(operator, data_type) ==
    CASE operator.op = "Equals" -> TRUE
      [] operator.op \in {"Gt", "Gte", "Lt", "Lte", "Between"} ->
            data_type = "NumericOrDate"
      [] operator.op = "Contains" ->
            data_type = "String" \/ data_type = "Array"
      [] OTHER -> data_type = "String"

QueryFilter(key, operator, value) ==
    [key |-> key, value |-> value, operator |-> operator]

\* Filter values a caller may pass: plain text, and text holding characters
\* that are reserved in a query string
FilterValues ==
    {<<"a">>, <<"a"," ","b">>, <<"a","&","b">>, <<"a","=","b">>,
     <<"%","2","0">>, <<"a","+","b">>, <<"a","#">>}

\* The filters a caller builds: every operator and negation flag on a plain
\* value, and equality on every value
FilterInputs ==
    {QueryFilter(<<"k">>, operator, <<"a">>) : operator \in FilterOperators}
    \cup {QueryFilter(id_key, Equals(FALSE), value) : value \in FilterValues}

\* Vec<QueryFilter> of up to MaxFilters filters
FilterVecs == UNION {[1..n -> FilterInputs] : n \in 0..MaxFilters}

\* No library function is applied and no result is held
Idle == applied = NothingApplied

\* The caller drops what the function returned
Discard ==
    /\ ~Idle
    /\ applied' = NothingApplied
    /\ returned' = <<>>
    /\ UNCHANGED clientVars

\* filter.into_tuples() on one QueryFilter
IntoTuples ==
    /\ Idle
    /\ \E filter \in FilterInputs :
          /\ applied' = Applied("into_tuples", <<filter>>)
          /\ returned' = into_tuples(filter)
    /\ UNCHANGED clientVars

\* filters.into_query_string() on a Vec<QueryFilter>
IntoQueryString ==
    /\ Idle
    /\ \E filters \in FilterVecs :
          /\ applied' = Applied("into_query_string", filters)
          /\ returned' = into_query_string(filters)
    /\ UNCHANGED clientVars

\* operator.is_applicable_to(data_type)
IsApplicableTo ==
    /\ Idle
    /\ \E operator \in FilterOperators, data_type \in DataTypes :
          /\ applied' = Applied("is_applicable_to", <<operator, data_type>>)
          /\ returned' = is_applicable_to(operator, data_type)
    /\ UNCHANGED clientVars

NextFilters ==
    \/ IntoTuples
    \/ IntoQueryString
    \/ IsApplicableTo
    \/ Discard

SpecFilters == Init /\ [][NextFilters]_vars

\* ------------------------------------------------------------------- claims

LoginCalls == {"login", "login_with_token"}

\* The calls made on Client<Authenticated>, or on a FilterBuilder, Resource or
\* Handle that holds a clone of it
AuthenticatedCalls ==
    {"request", "get", "search", "post", "patch", "delete", "execute",
     "execute_expecting_single_result", "select", "select_by_name",
     "filter", "filter_expecting_single_result", "create", "update",
     "Resource::delete", "Handle<Class>::delete", "Handle<Class>::objects",
     "Handle<Group>::add_user", "Handle<Group>::remove_user",
     "Handle<Group>::members", "Handle<Namespace>::permissions"}

\* The call sent its request and a response arrived
Answered == call.name \in AuthenticatedCalls /\ sent # <<>> /\ resp[1].arrived

HasPatchId(url_params) ==
    \E i \in 1..Len(url_params) : url_params[i][1] = patch_id

\* C1: a client becomes Authenticated only in a login or login_with_token call
\* on an Unauthenticated client that was answered with a success status and
\* returned Ok; such a call consumes the Unauthenticated client; and an
\* Authenticated client stays Authenticated.
C1_Step ==
    /\ (state' = "Authenticated" /\ state # "Authenticated") =>
          /\ state = "Unauthenticated"
          /\ call'.name \in LoginCalls
          /\ result'.tag = "Ok"
          /\ resp'[1].arrived /\ is_success(resp'[1].status)
    /\ (call'.name \in LoginCalls /\ call' # call) =>
          /\ state = "Unauthenticated"
          /\ state' \in {"Authenticated", "Consumed"}
    /\ state = "Authenticated" => state' = "Authenticated"

C1_AuthenticatedOnlyByLogin == [][C1_Step]_vars

C1_Witness == state = "Authenticated" /\ call.name = "login_with_token"

\* C2: every request sent by a call on the Authenticated client, or on a
\* FilterBuilder or Handle derived from it, carries Authorization: Bearer
\* <token>, the token being the one established at login; and no step changes
\* the token of an Authenticated client.
C2_Carried ==
    /\ state = "Authenticated" => token = established
    /\ builder.live => builder.client = established
    /\ handle.live => handle.client = established
    /\ call.name \in AuthenticatedCalls =>
          \A i \in 1..Len(sent) : sent[i].auth = <<"Bearer", established>>

C2_Kept == state = "Authenticated" => token' = token /\ established' = established

C2_BearerTokenOnEveryRequest == [](C2_Carried) /\ [][C2_Kept]_vars

C2_Witness ==
    /\ call.name = "Handle<Class>::delete"
    /\ sent # <<>>
    /\ established = "t2"

C4_LoginWithTokenOutcome ==
    call.name = "login_with_token" =>
        /\ ~resp[1].arrived => result.tag = "Http" /\ state = "Consumed"
        /\ (resp[1].arrived /\ ~is_success(resp[1].status)) =>
              result.tag = "InvalidToken" /\ state = "Consumed"
        /\ (resp[1].arrived /\ is_success(resp[1].status)) =>
              /\ result.tag = "Ok" /\ state = "Authenticated"
              /\ token = call.token

C4_Witness ==
    /\ call.name = "login_with_token"
    /\ ~resp[1].arrived
    /\ result.tag = "Http"

\* C5: a PATCH through the generic request with no patch_id among the URL
\* parameters returns MissingUrlIdentifier, and it has sent no request.
C5_PatchWithoutIdentifier ==
    (call.name = "request" /\ call.method = "PATCH" /\ ~HasPatchId(call.url_params)) =>
        result = Err("MissingUrlIdentifier", <<>>) /\ sent = <<>>

C5_Witness ==
    /\ call.name = "request" /\ call.method = "PATCH"
    /\ call.url_params # <<>> /\ ~HasPatchId(call.url_params)
    /\ result.tag = "MissingUrlIdentifier"

\* C6: a DELETE through the generic request operation whose body parameter is
\* EmptyPostParams (no identifier) returns MissingUrlIdentifier and sends no
\* request.
C6_DeleteRequiresIdentifier ==
    (/\ call.name \in {"request", "Handle<Class>::delete"}
     /\ call.method = "DELETE"
     /\ call.post_params = EmptyPostParams) =>
        result.tag = "MissingUrlIdentifier" /\ sent = <<>>

\* C7: a DELETE answered with a success status returns success with no value
\* when the body is empty, and DeserializationError carrying the body when it
\* is not.
C7_DeleteBody ==
    (/\ Answered /\ call.method = "DELETE"
     /\ is_success(resp[1].status) /\ resp[1].text_ok) =>
        IF resp[1].body = ""
        THEN result = IF call.name = "request" THEN OkNone ELSE OkUnit
        ELSE result = Err("DeserializationError", <<resp[1].body>>)

C7_Witness ==
    /\ Answered /\ call.name = "delete"
    /\ resp[1].status = NO_CONTENT /\ resp[1].text_ok /\ resp[1].body # ""
    /\ result.tag = "DeserializationError"

\* C8 as stated: a response with a non-success status yields HttpWithBody with
\* that status and, as message, the body's "message" field when the body
\* parses as JSON and the raw body when it does not.
C8_MessageFieldOrRawBody ==
    (Answered /\ ~is_success(resp[1].status) /\ resp[1].text_ok) =>
        /\ result.tag = "HttpWithBody"
        /\ result.val[1] = resp[1].status
        /\ IF IsJson(resp[1].body)
           THEN /\ MessageField(resp[1].body) # <<>>
                /\ result.val[2] = MessageField(resp[1].body)[1]
           ELSE result.val[2] = resp[1].body

\* C8 amended: for every method, a response with a non-success status whose
\* body can be read yields HttpWithBody with that status and, as message, the
\* body's "message" field when the body parses as JSON and has that string
\* field, the text "Error without message." when it parses and has not, and
\* the raw body when it does not parse; when the body cannot be read the
\* result is the Http error.  This holds whatever the method and the body.
C8_ErrorMessage ==
    (Answered /\ ~is_success(resp[1].status)) =>
        IF ~resp[1].text_ok THEN result.tag = "Http"
        ELSE /\ result.tag = "HttpWithBody"
             /\ result.val[1] = resp[1].status
             /\ result.val[2] =
                  IF ~IsJson(resp[1].body) THEN resp[1].body
                  ELSE IF MessageField(resp[1].body) # <<>>
                       THEN MessageField(resp[1].body)[1]
                       ELSE "Error without message."

C8_Witness ==
    /\ Answered /\ call.method = "DELETE"
    /\ ~is_success(resp[1].status) /\ resp[1].body = MessageBody
    /\ result = Err("HttpWithBody", <<404, "denied">>)

\* C9 as stated: for GET, POST and PATCH a success status with a body that does
\* not parse into the expected shape yields DeserializationError carrying the
\* body.
C9_UnparsableBodyIsError ==
    (/\ Answered /\ call.method \in {"GET", "POST", "PATCH"}
     /\ is_success(resp[1].status) /\ resp[1].text_ok
     /\ from_str(resp[1].body, call.shape) = <<>>) =>
        result = Err("DeserializationError", <<resp[1].body>>)

\* C9 amended: for GET, POST and PATCH a success status other than 204 with a
\* body that does not parse into the expected shape yields
\* DeserializationError carrying the complete body; with 204 the body is not
\* parsed, the generic request returns no value and get, search, post and
\* patch return the EmptyResult error; and a value returned by request, get,
\* search, post or patch is the whole parsed body.
C9_UnparsableBody ==
    (/\ Answered /\ call.method \in {"GET", "POST", "PATCH"}
     /\ is_success(resp[1].status) /\ resp[1].text_ok) =>
        /\ (resp[1].status # NO_CONTENT /\ from_str(resp[1].body, call.shape) = <<>>) =>
              result = Err("DeserializationError", <<resp[1].body>>)
        /\ resp[1].status = NO_CONTENT =>
              CASE call.name = "request" -> result = OkNone
                [] call.name \in {"Handle<Group>::members",
                                  "Handle<Namespace>::permissions"} ->
                      result = Ok(<<>>)
                [] call.name = "Handle<Group>::add_user" -> result = OkUnit
                [] OTHER -> result.tag = "EmptyResult"
        /\ (call.name \in {"request", "get", "search", "post", "patch", "execute"}
              /\ result.tag \in {"Ok", "OkSome"}) =>
              result.val = from_str(resp[1].body, call.shape)

C9_Witness ==
    /\ Answered /\ call.name = "patch"
    /\ resp[1].status = 200 /\ resp[1].body = ListBody(1)
    /\ result = Err("DeserializationError", <<ListBody(1)>>)

\* C10: one_or_err, applied by execute_expecting_single_result and select to
\* the list v the search returned: EmptyResult naming the type when v is
\* empty, TooManyResults reporting Len(v) when v has two or more elements, and
\* the element itself when v has one; exactly one of the three.
C10_OneOrErr ==
    (/\ Answered /\ call.name \in {"execute_expecting_single_result", "select"}
     /\ is_success(resp[1].status) /\ resp[1].status # NO_CONTENT /\ resp[1].text_ok
     /\ from_str(resp[1].body, "list") # <<>>) =>
        LET v == from_str(resp[1].body, "list")[1]
        IN  /\ Len(v) = 0 => result = Err("EmptyResult", <<call.kind, "not found">>)
            /\ Len(v) >= 2 => result = Err("TooManyResults", <<call.kind, Len(v)>>)
            /\ Len(v) = 1 => result = Ok(v[1])
            /\ result.tag \in {"EmptyResult", "TooManyResults", "Ok"}

C10_Witness ==
    /\ call.name = "execute_expecting_single_result"
    /\ result = Err("TooManyResults", <<"Class", MaxRecords>>)

\* ------------------------------------------------- claims on types/filter.rs

\* The name of each FilterOperator variant, as written in the enum
VariantName(op) ==
    CASE op = "Equals" -> <<"E","q","u","a","l","s">>
      [] op = "IEquals" -> <<"I","E","q","u","a","l","s">>
      [] op = "Contains" -> <<"C","o","n","t","a","i","n","s">>
      [] op = "IContains" -> <<"I","C","o","n","t","a","i","n","s">>
      [] op = "StartsWith" -> <<"S","t","a","r","t","s","W","i","t","h">>
      [] op = "IStartsWith" -> <<"I","S","t","a","r","t","s","W","i","t","h">>
      [] op = "EndsWith" -> <<"E","n","d","s","W","i","t","h">>
      [] op = "IEndsWith" -> <<"I","E","n","d","s","W","i","t","h">>
      [] op = "Like" -> <<"L","i","k","e">>
      [] op = "Regex" -> <<"R","e","g","e","x">>
      [] op = "Gt" -> <<"G","t">>
      [] op = "Gte" -> <<"G","t","e">>
      [] op = "Lt" -> <<"L","t">>
      [] op = "Lte" -> <<"L","t","e">>
      [] op = "Between" -> <<"B","e","t","w","e","e","n">>

LowerChar(c) ==
    CASE c = "B" -> "b" [] c = "C" -> "c" [] c = "E" -> "e" [] c = "G" -> "g"
      [] c = "I" -> "i" [] c = "L" -> "l" [] c = "R" -> "r" [] c = "S" -> "s"
      [] c = "W" -> "w" [] OTHER -> c

Lowercase(s) == [i \in 1..Len(s) |-> LowerChar(s[i])]

\* The operator token the claims describe
OperatorToken(operator) ==
    (IF operator.is_negated THEN <<"n","o","t","_">> ELSE <<>>)
        \o Lowercase(VariantName(operator.op))

\* The percent-escape of one character that is reserved in a query string
EscapeChar(c) ==
    CASE c = " " -> <<"%","2","0">>
      [] c = "&" -> <<"%","2","6">>
      [] c = "=" -> <<"%","3","D">>
      [] c = "%" -> <<"%","2","5">>
      [] c = "#" -> <<"%","2","3">>
      [] c = "+" -> <<"%","2","B">>
      [] OTHER -> <<c>>

RECURSIVE PercentEncode(_)
PercentEncode(s) ==
    IF s = <<>> THEN <<>> ELSE EscapeChar(Head(s)) \o PercentEncode(Tail(s))

RECURSIVE PercentDecode(_)
PercentDecode(s) ==
    IF s = <<>> THEN <<>>
    ELSE IF Len(s) >= 3 /\ \E c \in {" ", "&", "=", "%", "#", "+"} :
                              SubSeq(s, 1, 3) = EscapeChar(c)
         THEN <<CHOOSE c \in {" ", "&", "=", "%", "#", "+"} :
                    SubSeq(s, 1, 3) = EscapeChar(c)>>
              \o PercentDecode(SubSeq(s, 4, Len(s)))
         ELSE <<Head(s)>> \o PercentDecode(Tail(s))

\* s split at the first occurrence of pat: <<before, after>>, <<s, <<>>>> if none
SplitOnce(s, pat) ==
    LET i == IndexOf(s, pat)
    IN  IF i = 0 THEN <<s, <<>>>>
        ELSE <<SubSeq(s, 1, i - 1), SubSeq(s, i + Len(pat), Len(s))>>

\* s split at every occurrence of pat
RECURSIVE Split(_, _)
Split(s, pat) ==
    IF IndexOf(s, pat) = 0 THEN <<s>>
    ELSE <<SplitOnce(s, pat)[1]>> \o Split(SplitOnce(s, pat)[2], pat)

\* A query string read back: split on "&", then on the first "=", then on
\* "__", the value percent-decoded
ParseQuery(s) ==
    IF s = <<>> THEN <<>>
    ELSE LET pieces == Split(s, <<"&">>)
         IN  [i \in 1..Len(pieces) |->
                LET kv == SplitOnce(pieces[i], <<"=">>)
                    ko == SplitOnce(kv[1], <<"_","_">>)
                IN  <<ko[1], ko[2], PercentDecode(kv[2])>>]

\* C11: a single filter {key, operator, value} serializes to
\* <key>__<token>=<escaped value>: the token is the operator's lowercase name,
\* prefixed with "not_" exactly when the operator is negated, distinct
\* operator/negation pairs give distinct tokens, and the value is
\* percent-escaped, so none of its reserved characters (space, "&", "=", "%",
\* "#", "+") is in the fragment raw.
C11_FilterFragment ==
    /\ applied.fn = "into_tuples" =>
          LET filter == applied.args[1]
          IN  /\ returned = <<filter.key, OperatorToken(filter.operator),
                              PercentEncode(filter.value)>>
              /\ \A other \in FilterOperators :
                    other # filter.operator =>
                        OperatorToString(other) # returned[2]
    /\ (applied.fn = "into_query_string" /\ Len(applied.args) = 1) =>
          LET filter == applied.args[1]
          IN  returned = filter.key \o <<"_","_">> \o OperatorToken(filter.operator)
                            \o <<"=">> \o PercentEncode(filter.value)

\* C12: round trip: the string into_query_string gives for N filters, split
\* on "&", then on the first "=", then on "__", with the value
\* percent-decoded, is the N (key, operator token, value) triples of the
\* filters, in their order.
C12_QueryRoundTrip ==
    applied.fn = "into_query_string" =>
        LET filters == applied.args
            parsed == ParseQuery(returned)
        IN  /\ Len(parsed) = Len(filters)
            /\ \A i \in 1..Len(filters) :
                  parsed[i] = <<filters[i].key, OperatorToString(filters[i].operator),
                                filters[i].value>>

EqualityOperators == {"Equals", "IEquals"}
ComparisonOperators == {"Gt", "Gte", "Lt", "Lte", "Between"}
PatternOperators ==
    {"StartsWith", "IStartsWith", "EndsWith", "IEndsWith", "Like", "Regex"}
ContainsOperators == {"Contains", "IContains"}

\* C13 as claimed: equality operators apply to every data type, comparison
\* operators exactly to NumericOrDate, pattern operators exactly to String,
\* contains operators exactly to String and Array, whatever the negation flag.
C13_ApplicableByFamily ==
    applied.fn = "is_applicable_to" =>
        LET operator == applied.args[1]
            data_type == applied.args[2]
        IN  /\ operator.op \in EqualityOperators => returned = TRUE
            /\ operator.op \in ComparisonOperators =>
                  returned = (data_type = "NumericOrDate")
            /\ operator.op \in PatternOperators => returned = (data_type = "String")
            /\ operator.op \in ContainsOperators =>
                  returned = (data_type \in {"String", "Array"})
            /\ returned = is_applicable_to(
                              [operator EXCEPT !.is_negated = ~operator.is_negated],
                              data_type)

\* C13: Equals applies to every data type; Gt, Gte, Lt, Lte and Between apply
\* exactly to NumericOrDate; Contains applies exactly to String and Array;
\* every other operator, IEquals and IContains included, applies exactly to
\* String; the negation flag does not matter.
C13_ApplicableTo ==
    applied.fn = "is_applicable_to" =>
        LET operator == applied.args[1]
            data_type == applied.args[2]
        IN  /\ operator.op = "Equals" => returned = TRUE
            /\ operator.op \in ComparisonOperators =>
                  returned = (data_type = "NumericOrDate")
            /\ operator.op = "Contains" =>
                  returned = (data_type \in {"String", "Array"})
            /\ operator.op \in PatternOperators \cup {"IEquals", "IContains"} =>
                  returned = (data_type = "String")
            /\ returned = is_applicable_to(
                              [operator EXCEPT !.is_negated = ~operator.is_negated],
                              data_type)

C13_Witness ==
    /\ applied = Applied("is_applicable_to",
                         <<[op |-> "IContains", is_negated |-> TRUE], "Array">>)
    /\ returned = FALSE

\* ------------------------------------------ library: types/baseurl.rs

\* Url::parse(s) of the url crate, for text made of lowercase letters, digits
\* and the delimiters ":", "/", "?", "=": the scheme is the text before the
\* first ":"; a special scheme takes a host after any number of "/" and has
\* the path "/" when none is written; any other scheme has an authority only
\* after "//", a path only when the rest starts with "/", and otherwise is an
\* opaque URL that cannot be a base.  The query is kept from "?" on.
SpecialSchemes ==
    {<<"h","t","t","p">>, <<"h","t","t","p","s">>, <<"f","t","p">>,
     <<"f","i","l","e">>, <<"w","s">>, <<"w","s","s">>}

\* s up to its first "/" or "?", and s from there on
UpTo(s, stops) ==
    LET ends == {i \in 1..Len(s) : s[i] \in stops}
        n == IF ends = {} THEN Len(s) + 1
             ELSE CHOOSE i \in ends : \A j \in ends : i <= j
    IN  <<SubSeq(s, 1, n - 1), SubSeq(s, n, Len(s))>>

Url(scheme, has_host, host, url_path, query, opaque) ==
    [scheme |-> scheme, has_host |-> has_host, host |-> host, path |-> url_path,
     query |-> query, cannot_be_a_base |-> opaque]

UrlParse(s) ==
    LET colon == IndexOf(s, <<":">>)
        scheme == SubSeq(s, 1, colon - 1)
        rest == SubSeq(s, colon + 1, Len(s))
    IN  IF colon <= 1 \/ \E i \in 1..(colon - 1) : s[i] \in {"/", "?", "="}
        THEN Err("UrlParse", <<"RelativeUrlWithoutBase">>)
        ELSE IF scheme \in SpecialSchemes
        THEN LET hp == UpTo(TrimStartMatches(rest, "/"), {"/", "?"})
                 pq == UpTo(hp[2], {"?"})
             IN  IF hp[1] = <<>> THEN Err("UrlParse", <<"EmptyHost">>)
                 ELSE Ok(Url(scheme, TRUE, hp[1],
                             IF pq[1] = <<>> THEN <<"/">> ELSE pq[1], pq[2], FALSE))
        ELSE IF Len(rest) >= 2 /\ SubSeq(rest, 1, 2) = <<"/","/">>
        THEN LET hp == UpTo(SubSeq(rest, 3, Len(rest)), {"/", "?"})
                 pq == UpTo(hp[2], {"?"})
             IN  Ok(Url(scheme, TRUE, hp[1], pq[1], pq[2], FALSE))
        ELSE LET pq == UpTo(rest, {"?"})
             IN  Ok(Url(scheme, FALSE, <<>>, pq[1], pq[2],
                        rest = <<>> \/ Head(rest) # "/"))

\* Url::as_str / Url::to_string: the serialization
UrlToString(url) ==
    url.scheme \o <<":">>
        \o (IF url.has_host THEN <<"/","/">> \o url.host ELSE <<>>)
        \o url.path \o url.query

\* Url::set_path
set_path(url, url_path) == [url EXCEPT !.path = url_path]

ends_with(s, c) == s # <<>> /\ s[Len(s)] = c

http == <<"h","t","t","p">>
https == <<"h","t","t","p","s">>

\* A mutant of from_str: the not-a-base check made before the scheme check
BaseUrl_from_str_base_first(s) ==
    LET parsed == UrlParse(s)
        url == parsed.val[1]
    IN  IF ~IsOk(parsed) THEN parsed
        ELSE IF url.cannot_be_a_base THEN Err("UrlNotBase", <<UrlToString(url)>>)
        ELSE IF ~(url.scheme = http \/ url.scheme = https)
        THEN Err("InvalidScheme", <<url.scheme>>)
        ELSE IF ~ends_with(url.path, "/")
        THEN Ok(set_path(url, url.path \o <<"/">>))
        ELSE Ok(url)

\* impl FromStr for BaseUrl
BaseUrl_from_str(s) ==
    LET parsed == UrlParse(s)
        url == parsed.val[1]
    IN  IF ~IsOk(parsed) THEN parsed
        ELSE IF ~(url.scheme = http \/ url.scheme = https)
        THEN Err("InvalidScheme", <<url.scheme>>)
        ELSE IF url.cannot_be_a_base THEN Err("UrlNotBase", <<UrlToString(url)>>)
        ELSE IF ~ends_with(url.path, "/")
        THEN Ok(set_path(url, url.path \o <<"/">>))
        ELSE Ok(url)

\* BaseUrl::as_str
as_str(baseurl) == UrlToString(baseurl)

\* impl Display for ApiError (thiserror), for the errors of from_str
Display(err) ==
    CASE err.tag = "InvalidScheme" ->   \* "Invalid URL scheme: {0}"
           <<"I","n","v","a","l","i","d"," ","U","R","L"," ","s","c","h","e","m","e",
             ":"," ">> \o err.val[1]
      [] err.tag = "UrlNotBase" ->      \* "URL cannot be a base: {0}"
           <<"U","R","L"," ","c","a","n","n","o","t"," ","b","e"," ","a"," ","b","a",
             "s","e",":"," ">> \o err.val[1]
      [] OTHER ->                       \* "Invalid URL: {0}"
           <<"I","n","v","a","l","i","d"," ","U","R","L",":"," ">>

\* The texts a caller passes to BaseUrl::from_str
UrlInputs ==
    {<<"h","t","t","p",":","/","/","h">>,
     <<"h","t","t","p",":","/","/","h","/">>,
     <<"h","t","t","p",":","/","/","h","/","/">>,
     <<"h","t","t","p","s",":","/","/","h">>,
     <<"h","t","t","p","s",":","/","/","h","/","a">>,
     <<"h","t","t","p","s",":","/","/","h","/","a","/">>,
     <<"h","t","t","p","s",":","/","/","h","/","a","/","/">>,
     <<"h","t","t","p",":","/","/","h","?","q">>,
     <<"h","t","t","p",":","/","/","h","/","a","?","q">>,
     <<"h","t","t","p",":","h">>,
     <<"h","t","t","p",":","/","/">>,
     <<"f","t","p",":","/","/","h">>,
     <<"f","i","l","e",":","/","/","h">>,
     <<"m","a","i","l","t","o",":","/","/","h">>,
     <<"m","a","i","l","t","o",":","a">>,
     <<"h">>,
     <<"/","h",":","a">>}

\* Those of them that BaseUrl::from_str accepts
BaseUrls == {s \in UrlInputs : IsOk(BaseUrl_from_str(s))}

Endpoints ==
    {"Login", "LoginWithToken", "Users", "Groups", "Classes", "Namespaces",
     "ObjectsInClass", "ClassRelations", "ClassRelationsTransitive",
     "ClassRelationsTransitiveToClass", "ObjectRelations", "ObjectRelation"}

to_class_id == <<"t","o","_","c","l","a","s","s","_","i","d">>

\* URL parameters a caller passes to build_url
PlaceholderChoices ==
    {<<>>,
     <<<<class_id, to_string(1)>>>>,
     <<<<class_id, to_string(1)>>, <<to_class_id, to_string(MaxId)>>>>,
     <<<<id_key, to_string(MaxId)>>>>}

\* BaseUrl::from_str(s)
FromStr ==
    /\ Idle
    /\ \E s \in UrlInputs :
          /\ applied' = Applied("from_str", <<s>>)
          /\ returned' = BaseUrl_from_str(s)
    /\ UNCHANGED clientVars

\* BaseUrl::from_str(s).unwrap().with_trailing_slash()
WithTrailingSlash ==
    /\ Idle
    /\ \E s \in BaseUrls :
          /\ applied' = Applied("with_trailing_slash", <<s>>)
          /\ returned' = with_trailing_slash(as_str(BaseUrl_from_str(s).val[1]))
    /\ UNCHANGED clientVars

\* Client::new(BaseUrl::from_str(s).unwrap()).build_url(&ep, url_params)
BuildUrl ==
    /\ Idle
    /\ \E s \in BaseUrls, ep \in Endpoints, url_params \in PlaceholderChoices :
          /\ applied' = Applied("build_url", <<s, ep, url_params>>)
          /\ returned' = build_url_from(as_str(BaseUrl_from_str(s).val[1]), ep,
                                        url_params)
    /\ UNCHANGED clientVars

\* ep.complete(&BaseUrl::from_str(s).unwrap())
Complete ==
    /\ Idle
    /\ \E s \in BaseUrls, ep \in Endpoints :
          /\ applied' = Applied("complete", <<s, ep>>)
          /\ returned' = complete(ep, as_str(BaseUrl_from_str(s).val[1]))
    /\ UNCHANGED clientVars

NextBaseUrl ==
    \/ FromStr
    \/ WithTrailingSlash
    \/ BuildUrl
    \/ Complete
    \/ Discard

SpecBaseUrl == Init /\ [][NextBaseUrl]_vars

\* --------------------------------------------- claims on types/baseurl.rs

\* The scheme a text names: what stands before its first ":"
SchemeOf(s) == SplitOnce(s, <<":">>)[1]

\* C14: BaseUrl::from_str accepts a URL only if its scheme is http or https
\* and it can be a base; a URL of any other scheme is rejected with the
\* invalid-scheme error naming the scheme, also when it cannot be a base (the
\* scheme is checked first); an http or https URL that cannot be a base is
\* rejected with the not-a-base error; a rejected input yields an error and no
\* BaseUrl.
C14_BaseUrlAccepts ==
    applied.fn = "from_str" =>
        LET s == applied.args[1]
            parsed == UrlParse(s)
        IN  /\ IsOk(returned) =>
                  /\ IsOk(parsed)
                  /\ SchemeOf(s) \in {http, https}
                  /\ ~parsed.val[1].cannot_be_a_base
            /\ (IsOk(parsed) /\ SchemeOf(s) \notin {http, https}) =>
                  /\ returned.tag = "InvalidScheme"
                  /\ returned.val = <<SchemeOf(s)>>
                  /\ Display(returned) =
                        <<"I","n","v","a","l","i","d"," ","U","R","L"," ","s","c","h",
                          "e","m","e",":"," ">> \o SchemeOf(s)
            /\ (IsOk(parsed) /\ SchemeOf(s) \in {http, https}
                  /\ parsed.val[1].cannot_be_a_base) =>
                  returned.tag = "UrlNotBase"
            /\ returned.tag \in {"Ok", "UrlParse", "InvalidScheme", "UrlNotBase"}

C14_Witness ==
    /\ applied = Applied("from_str", <<<<"m","a","i","l","t","o",":","a">>>>)
    /\ UrlParse(applied.args[1]).val[1].cannot_be_a_base
    /\ returned.tag = "InvalidScheme"
    /\ returned.val = <<<<"m","a","i","l","t","o">>>>

\* s ends with "/" and not with "//"
OneTrailingSlash(s) ==
    /\ ends_with(s, "/")
    /\ ~(Len(s) >= 2 /\ s[Len(s) - 1] = "/")

\* C15: every accepted BaseUrl ends with exactly one "/": as_str() ends with
\* "/" and not with "//", and with_trailing_slash() returns as_str() unchanged.
C15_ExactlyOneTrailingSlash ==
    /\ (applied.fn = "from_str" /\ IsOk(returned)) =>
          /\ OneTrailingSlash(as_str(returned.val[1]))
          /\ with_trailing_slash(as_str(returned.val[1])) = as_str(returned.val[1])
    /\ applied.fn = "with_trailing_slash" =>
          /\ OneTrailingSlash(returned)
          /\ returned = as_str(BaseUrl_from_str(applied.args[1]).val[1])

\* Every occurrence of pat in s replaced by rep, by splitting and joining
Substituted(s, pat, rep) == Join(Split(s, pat), rep)

RECURSIVE SubstitutedAll(_, _)
SubstitutedAll(s, url_params) ==
    IF url_params = <<>> THEN s
    ELSE SubstitutedAll(
            Substituted(s, <<"{">> \o url_params[1][1] \o <<"}">>, url_params[1][2]),
            Tail(url_params))

\* C16: for every accepted base URL and endpoint, build_url without URL
\* parameters is the normalized base followed by the endpoint path without its
\* leading "/", exactly one "/" stands between base and path, and the URL is
\* Endpoint::complete(base); with URL parameters every occurrence of a
\* placeholder {key} is replaced by the value supplied for key.
C16_BuildUrl ==
    applied.fn = "build_url" =>
        LET baseurl == BaseUrl_from_str(applied.args[1]).val[1]
            ep == applied.args[2]
            url_params == applied.args[3]
            trimmed == Tail(path(ep))
            plain == with_trailing_slash(as_str(baseurl)) \o trimmed
            join == Len(plain) - Len(trimmed)
        IN  /\ Head(path(ep)) = "/"
            /\ url_params = <<>> =>
                  /\ returned = plain
                  /\ returned[join] = "/"
                  /\ returned[join - 1] # "/"
                  /\ returned[join + 1] # "/"
                  /\ returned = complete(ep, as_str(baseurl))
            /\ returned = SubstitutedAll(plain, url_params)
            /\ \A i \in 1..Len(url_params) :
                  IndexOf(returned, <<"{">> \o url_params[i][1] \o <<"}">>) = 0

\* --------------------------------- library: api_resource_derive/src/lib.rs

MaxFields == 2      \* fields of a generated description, after its id field

\* One field of a struct that derives ApiResource: its name, its type and
\* the marks of its #[api(..)] attribute (has_attribute)
Field(name, ty, read_only, post_only, optional, as_id) ==
    [name |-> name, ty |-> ty, read_only |-> read_only, post_only |-> post_only,
     optional |-> optional, as_id |-> as_id]

\* One field of a generated struct: pub name: ty, or pub name: Option<ty>
Generated(name, ty, option) == [name |-> name, ty |-> ty, option |-> option]

id_suffix == <<"_","i","d">>

\* The body of the loop of process_fields: the four token streams after field
ProcessField(acc, field) ==
    LET id_field_name == IF field.as_id THEN field.name \o id_suffix ELSE field.name
        id_type == Generated(id_field_name, "i32", field.optional)
    IN  [main_fields |->
            IF ~field.post_only
            THEN Append(acc.main_fields,
                        Generated(field.name, field.ty, field.optional))
            ELSE acc.main_fields,
         get_fields |->
            IF ~field.post_only
            THEN Append(acc.get_fields, Generated(id_field_name, field.ty, TRUE))
            ELSE acc.get_fields,
         post_fields |->
            IF field.post_only
            THEN Append(acc.post_fields, Generated(id_field_name, field.ty, FALSE))
            ELSE IF ~field.read_only
            THEN IF field.as_id
                 THEN Append(acc.post_fields, id_type)
                 ELSE Append(acc.post_fields,
                             Generated(id_field_name, field.ty, field.optional))
            ELSE acc.post_fields,
         patch_fields |->
            IF field.post_only THEN acc.patch_fields
            ELSE IF ~field.read_only
            THEN IF field.as_id
                 THEN Append(acc.patch_fields, id_type)
                 ELSE Append(acc.patch_fields,
                             Generated(id_field_name, field.ty, TRUE))
            ELSE acc.patch_fields]

RECURSIVE ProcessFrom(_, _)
ProcessFrom(acc, fields) ==
    IF fields = <<>> THEN acc
    ELSE ProcessFrom(ProcessField(acc, Head(fields)), Tail(fields))

\* process_fields: (main_fields, get_fields, post_fields, patch_fields)
process_fields(fields) ==
    ProcessFrom([main_fields |-> <<>>, get_fields |-> <<>>, post_fields |-> <<>>,
                 patch_fields |-> <<>>], fields)

\* display_field_options, in order of preference
display_field_options ==
    <<<<"n","a","m","e">>, <<"u","s","e","r">>,
      <<"u","s","e","r","n","a","m","e">>, id_key>>

\* api_resource_derive on a struct named <Kind>Resource with these named
\* fields: it panics when no field has one of the display names, and expands
\* to the four structs otherwise
api_resource_derive(fields) ==
    IF \A i \in 1..Len(display_field_options) :
          \A j \in 1..Len(fields) : fields[j].name # display_field_options[i]
    THEN Err("panic", <<>>)
    ELSE Ok(process_fields(fields))

\* ClassResource
ClassResource ==
    <<Field(id_key, "i32", TRUE, FALSE, FALSE, FALSE),
      Field(<<"n","a","m","e">>, "String", FALSE, FALSE, FALSE, FALSE),
      Field(<<"d","e","s","c","r","i","p","t","i","o","n">>, "String",
            FALSE, FALSE, FALSE, FALSE),
      Field(<<"n","a","m","e","s","p","a","c","e">>, "Namespace",
            FALSE, FALSE, FALSE, TRUE),
      Field(<<"j","s","o","n","_","s","c","h","e","m","a">>, "serde_json::Value",
            FALSE, FALSE, TRUE, FALSE),
      Field(<<"v","a","l","i","d","a","t","e","_","s","c","h","e","m","a">>, "bool",
            FALSE, FALSE, TRUE, FALSE),
      Field(<<"c","r","e","a","t","e","d","_","a","t">>, "chrono::NaiveDateTime",
            TRUE, FALSE, FALSE, FALSE),
      Field(<<"u","p","d","a","t","e","d","_","a","t">>, "chrono::NaiveDateTime",
            TRUE, FALSE, FALSE, FALSE)>>

\* NamespaceResource
NamespaceResource ==
    <<Field(id_key, "i32", TRUE, FALSE, FALSE, FALSE),
      Field(<<"n","a","m","e">>, "String", FALSE, FALSE, FALSE, FALSE),
      Field(<<"d","e","s","c","r","i","p","t","i","o","n">>, "String",
            FALSE, FALSE, FALSE, FALSE),
      Field(<<"g","r","o","u","p","_","i","d">>, "i32",
            FALSE, TRUE, FALSE, FALSE),
      Field(<<"c","r","e","a","t","e","d","_","a","t">>, "chrono::NaiveDateTime",
            TRUE, FALSE, FALSE, FALSE),
      Field(<<"u","p","d","a","t","e","d","_","a","t">>, "chrono::NaiveDateTime",
            TRUE, FALSE, FALSE, FALSE)>>

\* The field names of a generated description, by position: f1, f2, ..
FieldName(i) == <<"f">> \o to_string(i)

Marks == [read_only : BOOLEAN, post_only : BOOLEAN, optional : BOOLEAN,
          as_id : BOOLEAN]

\* The structs a developer may write: the two above, a struct with no display
\* field, and an id field followed by up to MaxFields fields of a type T with
\* every combination of marks
Descriptions ==
    {ClassResource, NamespaceResource,
     <<Field(FieldName(1), "T", FALSE, FALSE, FALSE, FALSE)>>}
    \cup {<<Field(id_key, "i32", TRUE, FALSE, FALSE, FALSE)>>
            \o [i \in DOMAIN marks |->
                  Field(FieldName(i), "T", marks[i].read_only, marks[i].post_only,
                        marks[i].optional, marks[i].as_id)] :
          marks \in UNION {[1..n -> Marks] : n \in 1..MaxFields}}

\* #[derive(ApiResource)] on a struct
ApiResourceDerive ==
    /\ Idle
    /\ \E fields \in Descriptions :
          /\ applied' = Applied("api_resource_derive", fields)
          /\ returned' = api_resource_derive(fields)
    /\ UNCHANGED clientVars

\* The resource types of resources/: User implements ApiResource by hand, the
\* others are generated from ClassResource, GroupResource, .. by the macro
ResourceKinds ==
    {"User", "Class", "Group", "Namespace", "Object", "ClassRelation",
     "ObjectRelation"}

username == <<"u","s","e","r","n","a","m","e">>
email == <<"e","m","a","i","l">>

\* UserGet::default(), for the two fields build_params may set
UserGetDefault == [username |-> <<>>, email |-> <<>>]

\* The loop of impl ApiResource for User, build_params: a tuple sets a field
\* of the UserGet when its field is username or email and its operator is
\* FilterOperator::Eq, and is ignored otherwise
RECURSIVE user_build_params_from(_, _)
user_build_params_from(params, filters) ==
    IF filters = <<>> THEN params
    ELSE LET field == filters[1][1]
             op == filters[1][2]
             value == filters[1][3]
         IN  user_build_params_from(
                CASE field = username /\ op.op = "Eq" ->
                        [params EXCEPT !.username = <<value>>]
                  [] field = email /\ op.op = "Eq" ->
                        [params EXCEPT !.email = <<value>>]
                  [] OTHER -> params,
                Tail(filters))

user_build_params(filters) == user_build_params_from(UserGetDefault, filters)

\* T::build_params of the resource type T, with the type of what it returns.
\* FilterBuilder::execute hands that value to search, which takes a
\* Vec<QueryFilter>; the client is therefore modelled with build_params as
\* the trait declares it and the macro generates it, for User as well.
ApiResource_build_params(kind, filters) ==
    IF kind = "User"
    THEN [type |-> "UserGet", val |-> user_build_params(filters)]
    ELSE [type |-> "Vec<QueryFilter>", val |-> build_params(filters)]

\* (field, operator, value) tuples handed to build_params
FilterTuples == FilterChoices \cup {<<username, Equals(FALSE), <<"a">>>>}

BuildParams ==
    /\ Idle
    /\ \E kind \in ResourceKinds :
       \E filters \in UNION {[1..n -> FilterTuples] : n \in 0..MaxFilters} :
          /\ applied' = Applied("build_params", <<kind, filters>>)
          /\ returned' = ApiResource_build_params(kind, filters)
    /\ UNCHANGED clientVars

NextDerive ==
    \/ ApiResourceDerive
    \/ BuildParams
    \/ Discard

SpecDerive == Init /\ [][NextDerive]_vars

\* ------------------------------- claims on api_resource_derive/src/lib.rs

\* The field names of a generated struct
Names(shape) == {shape[i].name : i \in 1..Len(shape)}

\* A field of the description appears in a generated struct, under its own
\* name or under <name>_id
Appears(shape, field) ==
    field.name \in Names(shape) \/ (field.name \o id_suffix) \in Names(shape)

Generates == applied.fn = "api_resource_derive" /\ returned.tag = "Ok"

\* C17: for every description and every field: a read-only field is in neither
\* the post nor the patch shape; a post-only field is in the post shape and in
\* none of the full-record, get-filter and patch shapes; a field with neither
\* mark is in all four shapes.
C17_FieldClassification ==
    Generates =>
        LET s == returned.val[1]
        IN  \A i \in 1..Len(applied.args) :
               LET field == applied.args[i]
               IN  /\ field.read_only =>
                        /\ ~Appears(s.post_fields, field)
                        /\ ~Appears(s.patch_fields, field)
                   /\ field.post_only =>
                        /\ Appears(s.post_fields, field)
                        /\ ~Appears(s.main_fields, field)
                        /\ ~Appears(s.get_fields, field)
                        /\ ~Appears(s.patch_fields, field)
                   /\ (~field.read_only /\ ~field.post_only) =>
                        /\ Appears(s.main_fields, field)
                        /\ Appears(s.get_fields, field)
                        /\ Appears(s.post_fields, field)
                        /\ Appears(s.patch_fields, field)

\* C18: in the patch shape every field is optional, fields marked as_id and
\* fields not marked optional included, and the patch shape has the field
\* names of the post shape without those of the post-only fields.
C18_PatchAllOptional ==
    Generates =>
        LET s == returned.val[1]
            post_only == {i \in 1..Len(applied.args) : applied.args[i].post_only}
        IN  /\ \A j \in 1..Len(s.patch_fields) : s.patch_fields[j].option
            /\ Names(s.patch_fields) =
                  Names(s.post_fields) \ {n \in Names(s.post_fields) :
                      \E i \in post_only :
                          n \in {applied.args[i].name,
                                 applied.args[i].name \o id_suffix}}

\* C19: for every field f marked as_id, whatever its other marks: where f is
\* in the post shape or the patch shape it is a field f_id holding an integer
\* identifier, never the nested type; the get-filter shape names it f_id; none
\* of the post, patch and get shapes has a field named f.
C19_ForeignKey ==
    Generates =>
        LET s == returned.val[1]
        IN  \A i \in 1..Len(applied.args) :
               LET field == applied.args[i]
                   f_id == field.name \o id_suffix
               IN  field.as_id =>
                     /\ ~field.read_only \/ field.post_only =>
                           \E j \in 1..Len(s.post_fields) :
                               s.post_fields[j].name = f_id
                     /\ (~field.read_only /\ ~field.post_only) =>
                           \E j \in 1..Len(s.patch_fields) :
                               s.patch_fields[j].name = f_id
                     /\ \A j \in 1..Len(s.post_fields) :
                           s.post_fields[j].name = f_id =>
                               s.post_fields[j].ty = "i32"
                     /\ \A j \in 1..Len(s.patch_fields) :
                           s.patch_fields[j].name = f_id =>
                               s.patch_fields[j].ty = "i32"
                     /\ ~field.post_only => f_id \in Names(s.get_fields)
                     /\ field.name \notin Names(s.post_fields)
                                             \cup Names(s.patch_fields)
                                             \cup Names(s.get_fields)

\* C20: a description with a field marked both post-only and read-only is
\* rejected with an error; no shapes are generated from it.
C20_BothMarksRejected ==
    (/\ applied.fn = "api_resource_derive"
     /\ \E i \in 1..Len(applied.args) :
           applied.args[i].post_only /\ applied.args[i].read_only) =>
        returned.tag # "Ok"

\* ------------------------------------------- claims on the fluent builder

\* The fragment of the query string that one add_filter call contributes
FragmentOf(f) == into_query_string(build_params(<<f>>))

\* C21: every add_filter call on a FilterBuilder obtained from find() adds
\* its filter after those already added and keeps them, repeated ones
\* included; execute() then sends one GET whose query string is one fragment
\* per add_filter call, joined by "&", in call order, and no query string
\* when add_filter was never called.
C21_Step ==
    /\ (builder.live /\ builder'.live /\ builder' # builder) =>
          \E f \in FilterChoices : builder' = [builder EXCEPT !.filters = Append(@, f)]
    /\ (~builder.live /\ builder'.live) => builder'.filters = <<>>
    /\ (builder.live /\ call'.name = "execute") =>
          LET fragments == [i \in 1..Len(builder.filters) |->
                                FragmentOf(builder.filters[i])]
              url == build_url(endpoint(builder.kind), builder.url_params)
          IN  /\ Len(sent') = 1
              /\ sent'[1].method = "GET"
              /\ sent'[1].url = IF fragments = <<>> THEN url
                                ELSE url \o <<"?">> \o Join(fragments, <<"&">>)

ConstraintsOf(params) ==
    [i \in 1..Len(params.username) |-> [key |-> username, value |-> params.username[i]]]
    \o [i \in 1..Len(params.email) |-> [key |-> email, value |-> params.email[i]]]

\* C22: for every resource type, build_params maps a list of n (field,
\* operator, value) tuples to n QueryFilters, the i-th with the key, operator
\* and value of the i-th tuple: none dropped, merged or deduplicated,
\* whatever its field name or operator.
C22_OneFilterPerTuple ==
    applied.fn = "build_params" =>
        LET filters == applied.args[2]
            constraints == IF returned.type = "Vec<QueryFilter>" THEN returned.val
                           ELSE ConstraintsOf(returned.val)
        IN  /\ Len(constraints) = Len(filters)
            /\ \A i \in 1..Len(filters) :
                  /\ constraints[i].key = filters[i][1]
                  /\ constraints[i].value = filters[i][3]
                  /\ returned.type = "Vec<QueryFilter>" =>
                        constraints[i].operator = filters[i][2]

\* ------------------------------------------- client/async.rs, on its own

\* ClientCore::build_url of the asynchronous client: _url_params is not used
async_build_url(ep, url_params) ==
    with_trailing_slash(base_url) \o trim_start_matches(ep, "/")

\* The application/x-www-form-urlencoded form of one character
FormEncodeChar(c) ==
    CASE c = " " -> <<"+">>
      [] c = "&" -> <<"%","2","6">>
      [] c = "=" -> <<"%","3","D">>
      [] c = "%" -> <<"%","2","5">>
      [] c = "#" -> <<"%","2","3">>
      [] c = "+" -> <<"%","2","B">>
      [] OTHER -> <<c>>

RECURSIVE FormEncode(_)
FormEncode(s) ==
    IF s = <<>> THEN <<>> ELSE FormEncodeChar(Head(s)) \o FormEncode(Tail(s))

\* serde_urlencoded::to_string(&params) for a GetParams struct, params being
\* the <<field, value>> of its fields that are Some, in declaration order: a
\* None field is left out
urlencode_struct(params) ==
    Join([i \in 1..Len(params) |->
            FormEncode(params[i][1]) \o <<"=">> \o FormEncode(params[i][2])],
         <<"&">>)

\* serde_urlencoded::to_string(&params) for a Vec<QueryFilter>: every element
\* of a sequence must serialize as a pair, and a QueryFilter serializes as a
\* struct of three fields, which the pair serializer rejects.  <<s>> for
\* Ok(s), <<>> for Err.
urlencode_filters(params) == IF params = <<>> THEN << <<>> >> ELSE <<>>

\* Response::error_for_status rejects the 4xx and 5xx statuses
is_error_status(status) == 400 <= status /\ status <= 599

\* .send().await?.error_for_status()? and then response.json().await? into
\* the output shape
await_json(shape, response) ==
    IF ~response.arrived THEN Err("Http", <<"send">>)
    ELSE IF is_error_status(response.status) THEN Err("Http", <<"status">>)
    ELSE IF ~response.text_ok \/ from_str(response.body, shape) = <<>>
         THEN Err("Http", <<"decode">>)
    ELSE Ok(from_str(response.body, shape)[1])

\* Client<Unauthenticated>::login (async)
async_login(credentials, response) ==
    [sent |-> <<HttpRequest("POST", async_build_url("Login", <<>>), <<>>,
                            <<credentials>>)>>,
     result |-> await_json("token", response)]

\* Client<Unauthenticated>::login_with_token (async)
async_login_with_token(t, response) ==
    [sent |-> <<HttpRequest("GET", async_build_url("LoginWithToken", <<>>),
                            Bearer(t), <<>>)>>,
     result |->
        IF ~response.arrived THEN Err("Http", <<"send">>)
        ELSE IF is_success(response.status) THEN Ok(t)
        ELSE Err("InvalidToken", <<>>)]

\* Client<Authenticated>::get (async)
async_get(tok, kind, params, response) ==
    LET url == async_build_url(endpoint(kind), <<>>)
        query == urlencode_struct(params)
    IN  [sent |-> <<HttpRequest("GET",
                                IF query # <<>> THEN url \o <<"?">> \o query ELSE url,
                                Bearer(tok), <<>>)>>,
         result |-> await_json("list", response)]

\* Client<Authenticated>::search (async)
async_search(tok, kind, params, response) ==
    LET query == urlencode_filters(params)
    IN  IF query = <<>>
        THEN [sent |-> <<>>, result |-> Err("UrlSerialize", <<"unsupported pair">>)]
        ELSE [sent |-> <<HttpRequest("GET",
                                     async_build_url(endpoint(kind), <<>>)
                                        \o <<"?">> \o query[1],
                                     Bearer(tok), <<>>)>>,
              result |-> await_json("list", response)]

\* Client<Authenticated>::post (async)
async_post(tok, kind, response) ==
    [sent |-> <<HttpRequest("POST", async_build_url(endpoint(kind), <<>>),
                            Bearer(tok), <<Payload>>)>>,
     result |-> await_json("record", response)]

\* Client<Authenticated>::patch (async)
async_patch(tok, kind, id, response) ==
    [sent |-> <<HttpRequest("PATCH",
                            async_build_url(endpoint(kind), <<>>)
                                \o <<"/">> \o to_string(id),
                            Bearer(tok), <<Payload>>)>>,
     result |-> await_json("record", response)]

\* Client<Authenticated>::delete (async): the body is parsed as
\* R::DeleteOutput, which is ()
async_delete(tok, kind, id, response) ==
    [sent |-> <<HttpRequest("DELETE",
                            async_build_url(endpoint(kind), <<>>)
                                \o <<"/">> \o to_string(id),
                            Bearer(tok), <<>>)>>,
     result |-> IF IsOk(await_json("unit", response)) THEN OkUnit
                ELSE await_json("unit", response)]

\* The GetParams a caller passes to the asynchronous get: the default, or
\* one with the name set
GetParamsChoices == {<<>>, <<<<name_key, <<"a"," ","b">>>>>>}

\* The Vec<QueryFilter> asking for what a GetParams asks for: equality on
\* every field that is set
FiltersOf(params) ==
    [i \in 1..Len(params) |->
        [key |-> params[i][1], value |-> params[i][2], operator |-> Equals(FALSE)]]

AsyncLogin ==
    /\ Idle
    /\ \E credentials \in Credentials, issued \in Tokens :
       \E response \in Responses \cup {Answer(s, TokenBody(issued)) : s \in Statuses} :
          /\ applied' = Applied("login", <<credentials, response>>)
          /\ returned' = async_login(credentials, response)
    /\ UNCHANGED clientVars

AsyncLoginWithToken ==
    /\ Idle
    /\ \E t \in Tokens, response \in Responses :
          /\ applied' = Applied("login_with_token", <<t, response>>)
          /\ returned' = async_login_with_token(t, response)
    /\ UNCHANGED clientVars

AsyncGet ==
    /\ Idle
    /\ \E tok \in Tokens, kind \in Kinds, params \in GetParamsChoices,
          response \in Responses :
          /\ applied' = Applied("get", <<tok, kind, params, response>>)
          /\ returned' = async_get(tok, kind, params, response)
    /\ UNCHANGED clientVars

AsyncSearch ==
    /\ Idle
    /\ \E tok \in Tokens, kind \in Kinds, params \in QueryChoices,
          response \in Responses :
          /\ applied' = Applied("search", <<tok, kind, params, response>>)
          /\ returned' = async_search(tok, kind, params, response)
    /\ UNCHANGED clientVars

AsyncPost ==
    /\ Idle
    /\ \E tok \in Tokens, kind \in Kinds, response \in Responses :
          /\ applied' = Applied("post", <<tok, kind, response>>)
          /\ returned' = async_post(tok, kind, response)
    /\ UNCHANGED clientVars

AsyncPatch ==
    /\ Idle
    /\ \E tok \in Tokens, kind \in Kinds, id \in Ids, response \in Responses :
          /\ applied' = Applied("patch", <<tok, kind, id, response>>)
          /\ returned' = async_patch(tok, kind, id, response)
    /\ UNCHANGED clientVars

AsyncDelete ==
    /\ Idle
    /\ \E tok \in Tokens, kind \in Kinds, id \in Ids, response \in Responses :
          /\ applied' = Applied("delete", <<tok, kind, id, response>>)
          /\ returned' = async_delete(tok, kind, id, response)
    /\ UNCHANGED clientVars

NextAsync ==
    \/ AsyncLogin
    \/ AsyncLoginWithToken
    \/ AsyncGet
    \/ AsyncSearch
    \/ AsyncPost
    \/ AsyncPatch
    \/ AsyncDelete
    \/ Discard

SpecAsync == Init /\ [][NextAsync]_vars

\* ------------------------------------------- claims on the two clients

\* s begins with pre
StartsWith(s, pre) == Len(s) >= Len(pre) /\ SubSeq(s, 1, Len(pre)) = pre

\* C23 (blocking client): the URL of the GET that get, search and execute
\* send is the resolved endpoint URL, followed by "?" and the filter string
\* exactly when there is a filter.
C23_BlockingGetUrl ==
    (call.name \in {"get", "search", "execute"} /\ sent # <<>>) =>
        LET resolved == build_url(endpoint(call.kind), call.url_params)
        IN  /\ call.query_params = <<>> => sent[1].url = resolved
            /\ call.query_params # <<>> =>
                  sent[1].url = resolved \o <<"?">>
                                    \o into_query_string(call.query_params)

\* C23: the URL of a GET (get or search) is the resolved endpoint URL
\* followed by "?" and the serialized filter string exactly when that string
\* is not empty; with no filters it is the resolved endpoint URL with no "?"
\* appended.
C23_QueryOnlyWhenFilters ==
    (applied.fn \in {"get", "search"} /\ returned.sent # <<>>) =>
        LET resolved == build_url(endpoint(applied.args[2]), <<>>)
            url == returned.sent[1].url
        IN  /\ applied.args[3] = <<>> => url = resolved
            /\ applied.args[3] # <<>> =>
                  /\ StartsWith(url, resolved \o <<"?">>)
                  /\ Len(url) > Len(resolved) + 1

\* The blocking client's outcome of the call the asynchronous client was
\* given, with the same token, resource, id, filters and response
Blocking(fn, args) ==
    CASE fn = "login" -> login(args[1], args[2])
      [] fn = "login_with_token" -> login_with_token(args[1], args[2])
      [] fn = "get" -> get(args[1], args[2], <<>>, FiltersOf(args[3]), args[4])
      [] fn = "search" -> search(args[1], args[2], <<>>, args[3], args[4])
      [] fn = "post" -> post(args[1], args[2], <<>>, args[3])
      [] fn = "patch" -> patch(args[1], args[2], args[3], <<>>, args[4])
      [] fn = "delete" -> delete(args[1], args[2], args[3], <<>>, args[4])

AsyncCalls ==
    {"login", "login_with_token", "get", "search", "post", "patch", "delete"}

\* C24: the asynchronous client sends the request the blocking client sends
\* (method, URL with the id suffix, query string, bearer token, body) and
\* classifies the outcome as the blocking client does, for login,
\* login_with_token, get, search, post, patch and delete.
C24_SameContract ==
    applied.fn \in AsyncCalls =>
        /\ returned.sent = Blocking(applied.fn, applied.args).sent
        /\ returned.result = Blocking(applied.fn, applied.args).result

\* The variants of ApiError
ApiErrors ==
    {"Http", "Json", "Api", "InvalidScheme", "UrlNotBase", "UrlParse",
     "InvalidToken", "UrlSerialize", "MissingLocationHeader", "HttpWithBody",
     "MissingUrlIdentifier", "EmptyResult", "TooManyResults",
     "DeserializationError", "UnsupportedHttpOperation"}

\* The call's one request could not be sent, was rejected, or was answered
\* with a body that cannot be read or decoded
Failed ==
    /\ sent # <<>>
    /\ \/ ~resp[1].arrived
       \/ ~is_success(resp[1].status)
       \/ call.name # "login_with_token" /\ ~resp[1].text_ok
       \/ /\ call.name # "login_with_token" /\ call.method # "DELETE"
          /\ resp[1].status # NO_CONTENT
          /\ from_str(resp[1].body, call.shape) = <<>>

\* C25: no operation retries: a call of login, login_with_token, get,
\* search, post, patch, delete or request sends at most one HTTP request
\* whatever the outcome, and when that request fails the call returns an
\* ApiError, never a value recovered locally.
C25_NoRetry ==
    call.name \in LoginCalls \cup {"get", "search", "post", "patch", "delete", "request"} =>
        /\ Len(sent) <= 1
        /\ Failed => result.tag \in ApiErrors

\* A get whose request could not be sent: one request, and the transport's
\* error is what the caller gets
C25_Witness ==
    /\ call.name = "get"
    /\ Len(sent) = 1
    /\ ~resp[1].arrived
    /\ result = Err("Http", <<"send">>)

\* ----------------------------------------------- claims on select

groupname == <<"g","r","o","u","p","n","a","m","e">>

\* The field that holds the name in the record of each resource type, as the
\* structs of resources/ declare it and select_by_name's comment lists it
NameFieldOf(kind) ==
    CASE kind = "Group" -> groupname
      [] kind = "User" -> username
      [] OTHER -> name_key

\* The outcome of select and select_by_name, given the key and value of the
\* equality filter the GET must carry
SelectOutcome(key, value) ==
    /\ Len(sent') = 1
    /\ sent'[1].method = "GET"
    /\ sent'[1].auth = Bearer(token)
    /\ sent'[1].url = build_url(endpoint(call'.kind), <<>>) \o <<"?">>
                        \o key \o <<"_","_","e","q","u","a","l","s","=">> \o value
    /\ LET response == resp'[1]
           answered == /\ response.arrived /\ is_success(response.status)
                       /\ response.status # NO_CONTENT /\ response.text_ok
                       /\ from_str(response.body, "list") # <<>>
           records == from_str(response.body, "list")[1]
       IN  /\ (answered /\ Len(records) = 1) =>
                /\ result' = Ok(records[1])
                /\ handle' = [live |-> TRUE, client |-> token,
                              kind |-> call'.kind, id |-> records[1]]
           /\ (answered /\ Len(records) = 0) => result'.tag = "EmptyResult"
           /\ (answered /\ Len(records) >= 2) => result'.tag = "TooManyResults"
           /\ ~response.arrived => result' = Err("Http", <<"send">>)
           /\ (response.arrived /\ ~is_success(response.status) /\ response.text_ok)
                => result'.tag = "HttpWithBody"
           /\ ~(answered /\ Len(records) = 1) =>
                /\ ~IsOk(result')
                /\ handle' = handle

C26_Step ==
    /\ (Ready /\ call'.name = "select") =>
          SelectOutcome(id_key, to_string(call'.id))
    /\ (Ready /\ call'.name = "select_by_name") =>
          SelectOutcome(NameFieldOf(call'.kind), call'.by_name)

\* C26: select(id) and select_by_name(name) send one GET filtered by
\* equality on id, respectively on the name field of the resource type, and
\* produce a Handle only when the answer holds exactly one record; the
\* Handle pairs that record with the collection's client.  No record gives
\* EmptyResult, two or more TooManyResults, a failed request its own error,
\* and none of these produces or changes a Handle.
C26_Select == [][C26_Step]_vars

\* What the code does: as C26, with the filter of select_by_name on
\* T::NAME_FIELD
C26_SelectOnNameConstant ==
    [][/\ (Ready /\ call'.name = "select") =>
             SelectOutcome(id_key, to_string(call'.id))
       /\ (Ready /\ call'.name = "select_by_name") =>
             SelectOutcome(NAME_FIELD(call'.kind), call'.by_name)]_vars

\* ----------------------------------------------- claims on Handle

HandleCalls ==
    {"Handle<Class>::objects", "Handle<Class>::delete", "Handle<Group>::members",
     "Handle<Group>::add_user", "Handle<Group>::remove_user",
     "Handle<Namespace>::permissions"}

\* s ends with suf
EndsWith(s, suf) ==
    Len(s) >= Len(suf) /\ SubSeq(s, Len(s) - Len(suf) + 1, Len(s)) = suf

\* The URL names id as a path segment or as the value of a query parameter
ScopedTo(url, id) ==
    \/ IndexOf(url, <<"/">> \o id \o <<"/">>) # 0
    \/ EndsWith(url, <<"/">> \o id)
    \/ IndexOf(url, <<"/">> \o id \o <<"?">>) # 0
    \/ IndexOf(url, <<"=">> \o id \o <<"&">>) # 0
    \/ EndsWith(url, <<"=">> \o id)

\* C27: every request a method of a Handle sends is scoped to the handle's
\* id: the URL of the request of Handle<Class>::objects and ::delete,
\* Handle<Group>::members, ::add_user and ::remove_user and
\* Handle<Namespace>::permissions holds the id of the handle as a path
\* segment or a query parameter.
C27_ScopedToHandle ==
    call.name \in HandleCalls =>
        \A i \in 1..Len(sent) : ScopedTo(sent[i].url, to_string(call.id))

\* The server answered 204 No Content and the (empty or not) body was read
NoContent == Answered /\ resp[1].status = NO_CONTENT /\ resp[1].text_ok

\* C28: get, search, post and patch return success only with a value
\* deserialized from the body: answered with 204 the generic request yields
\* no value and these four return EmptyResult, whereas Handle<Group>::members
\* and Handle<Namespace>::permissions turn the missing value into the empty
\* list.
C28_NoContent ==
    /\ call.name \in {"get", "search", "post", "patch"} =>
          /\ IsOk(result) =>
                /\ Answered /\ is_success(resp[1].status) /\ resp[1].text_ok
                /\ resp[1].status # NO_CONTENT
                /\ result.tag = "Ok"
                /\ result.val = from_str(resp[1].body, call.shape)
          /\ NoContent => result.tag = "EmptyResult"
    /\ (call.name = "request" /\ call.method \in {"GET", "POST", "PATCH"} /\ NoContent) =>
          result = OkNone
    /\ (call.name \in {"Handle<Group>::members", "Handle<Namespace>::permissions"}
          /\ NoContent) =>
          result = Ok(<<>>)

\* A post answered with 204
C28_Witness ==
    /\ call.name = "post"
    /\ NoContent
    /\ result = Err("EmptyResult", <<"POST returned empty result">>)

\* A members() answered with 204
C28_MembersWitness ==
    /\ call.name = "Handle<Group>::members"
    /\ NoContent
    /\ result = Ok(<<>>)

\* ----------------------------------------------- claims on Resource

\* The calls made through a Resource<T>, directly or through the
\* FilterBuilder of its find()
ResourceCalls ==
    {"execute", "execute_expecting_single_result", "filter",
     "filter_expecting_single_result", "create", "update", "Resource::delete",
     "select", "select_by_name"}

\* The URL has no placeholder left and holds the value of every URL
\* parameter as a path segment
Resolved(url, url_params) ==
    /\ IndexOf(url, <<"{">>) = 0
    /\ IndexOf(url, <<"}">>) = 0
    /\ \A i \in 1..Len(url_params) :
          IndexOf(url, <<"/">> \o url_params[i][2] \o <<"/">>) # 0

\* C29: every request sent through a Resource that was created with URL
\* parameters (objects(class_id)) goes to the endpoint path with those
\* parameters substituted, for find().execute(), filter,
\* filter_expecting_single_result, create, update, delete, select and
\* select_by_name: its URL has no "{placeholder}" left and carries the
\* class_id.
C29_ResourceUrlParams ==
    (call.name \in ResourceCalls /\ call.url_params # <<>>) =>
        \A i \in 1..Len(sent) : Resolved(sent[i].url, call.url_params)

\* What the code does: C29 for every call but select and select_by_name
C29_ExceptSelect ==
    (call.name \in ResourceCalls \ {"select", "select_by_name"}
        /\ call.url_params # <<>>) =>
        \A i \in 1..Len(sent) : Resolved(sent[i].url, call.url_params)

\* C30: patch(resource, id, url_params, params) and delete(resource, id,
\* url_params) send their request to the URL built from the endpoint and
\* url_params, immediately followed by the decimal form of id, whatever
\* url_params the caller passes, a patch_id entry included; and
\* Resource::update never returns MissingUrlIdentifier.
C30_IdSuffix ==
    /\ (call.name \in {"patch", "delete", "update", "Resource::delete"}) =>
          /\ Len(sent) = 1
          /\ sent[1].url = build_url(endpoint(call.kind), call.url_params)
                              \o to_string(call.id)
    /\ call.name = "update" => result.tag # "MissingUrlIdentifier"

\* What the code does: C30 for delete, and for patch when the caller's
\* url_params hold no patch_id
C30_IdSuffixUnlessPatchId ==
    /\ (call.name \in {"patch", "delete", "update", "Resource::delete"}
          /\ ~(call.method = "PATCH" /\ HasPatchId(call.url_params))) =>
          /\ Len(sent) = 1
          /\ sent[1].url = build_url(endpoint(call.kind), call.url_params)
                              \o to_string(call.id)
    /\ call.name = "update" => result.tag # "MissingUrlIdentifier"

====
